---------------------------- MODULE Spec2Model ----------------------------
(***************************************************************************)
(* Model of the IB partner portal backend: trade ingestion into the        *)
(* ib_trade_history ledger, commission recomputation, commission           *)
(* aggregation, withdrawals and partner authentication.                    *)
(*                                                                         *)
(* Representation.                                                         *)
(*   - A string that the code inspects (toLowerCase, trim, split) is a     *)
(*     sequence of one-character strings.                                  *)
(*   - Volumes are integers in thousandths of a lot (0.05 lots = 50),      *)
(*     prices and profits are integers in thousandths, rates (usd_per_lot) *)
(*     are whole dollars, ib_commission is in thousandths of a dollar.     *)
(*   - The composite id `${accountId}-${orderId}` is the pair              *)
(*     <<accountId, orderId>>.                                             *)
(***************************************************************************)
EXTENDS Integers, Sequences, FiniteSets, TLC

VARIABLES
    ledger,        \* ib_trade_history: a set of rows
    lastBatch,     \* per item of the most recent upsertTrades call: what was done with it
    lastRaw,       \* per order id: the last raw item an INSERT .. ON CONFLICT was executed
                   \* for, and the synced_at that statement wrote to the row
    ops,           \* number of ingestion calls made so far
    ibRequests,    \* ib_requests: per partner id, its status and legacy default rates
    assignments,   \* ib_group_assignments: a set of rules
    referralCodes, \* ib_requests.referral_code per partner, and the position of
                   \* each partner's PUT /referral-code request
    sched,         \* the position of the autoSyncTrades pass
    admin,         \* the position of an admin sync request
    syncLog,       \* per account: what the completed syncs of the account left behind
    withdrawals,   \* ib_withdrawal_requests: a set of rows
    tokens,        \* the JWTs issued so far (their payloads)
    lastRequest,   \* the most recent portal request and the response it got
    lastAgg        \* the most recent aggregation call and what it returned

ledgerVars == <<ledger, lastBatch, lastRaw>>
partnerVars == <<ibRequests, assignments, referralCodes>>
syncVars == <<sched, admin, syncLog>>
portalVars == <<withdrawals, tokens, lastRequest, lastAgg>>

vars == <<ledger, lastBatch, lastRaw, ops, ibRequests, assignments, referralCodes,
          sched, admin, syncLog, withdrawals, tokens, lastRequest, lastAgg>>

----------------------------------------------------------------------------
(* Bounds of the model *)

MaxOps == 2        \* ingestion calls in one behaviour

----------------------------------------------------------------------------
(* Strings *)

UpperChars == <<"A","B","C","D","E","F","G","H","I","J","K","L","M",
                "N","O","P","Q","R","S","T","U","V","W","X","Y","Z">>
LowerChars == <<"a","b","c","d","e","f","g","h","i","j","k","l","m",
                "n","o","p","q","r","s","t","u","v","w","x","y","z">>

LowerChar(c) ==
    IF \E i \in 1..Len(UpperChars) : UpperChars[i] = c
    THEN LowerChars[CHOOSE i \in 1..Len(UpperChars) : UpperChars[i] = c]
    ELSE c

\* String.prototype.toLowerCase
toLowerCase(s) == [i \in 1..Len(s) |-> LowerChar(s[i])]

RECURSIVE trimStart(_)
trimStart(s) == IF s # <<>> /\ Head(s) = " " THEN trimStart(Tail(s)) ELSE s

RECURSIVE trimEnd(_)
trimEnd(s) ==
    IF s # <<>> /\ s[Len(s)] = " " THEN trimEnd(SubSeq(s, 1, Len(s) - 1)) ELSE s

\* String.prototype.trim
trim(s) == trimEnd(trimStart(s))

\* the last index of a path separator in s, 0 when there is none
RECURSIVE lastSepIndex(_, _)
lastSepIndex(s, i) ==
    IF i = 0 THEN 0
    ELSE IF s[i] \in {"/", "\\"} THEN i ELSE lastSepIndex(s, i - 1)

\* regexp_replace(x, '.*[\\/]', ''): what follows the last separator
lastSegment(s) == SubSeq(s, lastSepIndex(s, Len(s)) + 1, Len(s))

----------------------------------------------------------------------------
(* Values *)

NULL == <<"null">>          \* SQL NULL / JS null (no string of the model equals it)

S_buy == <<"b","u","y">>
S_sell == <<"s","e","l","l">>
S_SELLsp == <<"S","E","L","L"," ">>
S_balance == <<"b","a","l","a","n","c","e">>
S_EURUSD == <<"E","U","R","U","S","D">>
S_blank == <<" ">>
S_star == <<"*">>

G_Std == <<"S","t","d">>
G_realStd == <<"r","e","a","l","\\","S","t","d">>
G_Pro == <<"P","r","o">>
G_DemoPro == <<"D","e","m","o","\\","P","r","o">>

----------------------------------------------------------------------------
(* The world around the program: partners, users, trading accounts *)

Partners == {1, 2}                       \* ib_requests.id
Accounts == {"A1", "A2", "A3"}           \* "MT5Account"."accountId"
OrderIdsUp == {"1", "2", "3"}                \* order ids the upstream uses

\* "MT5Account"."userId"
accountUser(a) == IF a \in {"A1", "A3"} THEN "u1" ELSE "u2"
\* ib_requests joined to "User" on email: the partner a user is
userPartner(u) == IF u = "u1" THEN 1 ELSE 2

\* A raw item of the broker's trade-history response (Items[i]).
Item(oid, sym, typ, vol, op, cl, pr) ==
    [OrderId |-> oid, Symbol |-> sym, OrderType |-> typ, Volume |-> vol,
     OpenPrice |-> op, ClosePrice |-> cl, Profit |-> pr]

I_p10 == Item("1", S_EURUSD, S_buy, 50, 1100, 1200, 10000)       \* 0.05 lots, profit 10
I_p12 == Item("1", S_EURUSD, S_buy, 50, 1100, 1200, 12000)       \* its re-sync, profit 12
I_zeroProfit == Item("2", S_EURUSD, S_SELLsp, 200, 1100, 1234, 0) \* closed, profit 0
I_balance == Item("2", S_EURUSD, S_balance, 1000, 1100, 1200, 5000)
I_blankSymbol == Item("1", S_blank, S_buy, 1000, 1100, 1200, 7000)
I_open == Item("2", S_EURUSD, S_buy, 1000, 1100, 0, 0)
I_noOpenPrice == Item("1", S_EURUSD, S_sell, 1000, 0, 1200, 3000)
I_noVolume == Item("2", S_EURUSD, S_sell, 0, 1100, 1200, 3000)
I_noOrderId == Item("", S_EURUSD, S_buy, 1000, 1100, 1200, 3000)
I_loss == Item("3", S_EURUSD, S_sell, 2000, 1100, 1150, -4000)      \* 2 lots, loss 4

\* upstream responses (Items arrays) the model feeds to ingestion
Responses ==
    { <<I_p10>>, <<I_p12>>, <<I_p10, I_p12>>,
      <<I_zeroProfit, I_balance>>,
      <<I_blankSymbol, I_open>>,
      <<I_noOpenPrice, I_noVolume, I_noOrderId>>,
      <<I_loss>> }

----------------------------------------------------------------------------
(* IBTradeHistory.upsertTrades *)

\* JS truthiness of a string-or-null value
truthy(s) == s # NULL /\ s # <<>>

\* the rate picked before the loop
usdPerLotOf(commissionMap, groupId) ==
    IF truthy(groupId) /\ toLowerCase(groupId) \in DOMAIN commissionMap
    THEN commissionMap[toLowerCase(groupId)].usdPerLot
    ELSE IF S_star \in DOMAIN commissionMap
         THEN commissionMap[S_star].usdPerLot
         ELSE 0

\* the admission checks of the loop body: each failed check is a `continue`
admitted(trade) ==
    /\ trade.OrderId # ""
    /\ trim(trade.Symbol) # <<>>
    /\ trim(toLowerCase(trade.OrderType)) \in {S_buy, S_sell}
    /\ trade.ClosePrice # 0
    /\ trade.OpenPrice # 0
    /\ trade.Volume # 0

\* volume < 0.1 ? volume * 1000 : volume   (volumes are in thousandths)
volumeLotsOf(volume) == IF volume < 100 THEN volume * 1000 ELSE volume

\* the row the INSERT proposes (EXCLUDED)
excludedRow(trade, accountId, userId, ibRequestId, usdPerLot, groupId) ==
    [id |-> <<accountId, trade.OrderId>>,
     order_id |-> trade.OrderId,
     account_id |-> accountId,
     user_id |-> userId,
     ib_request_id |-> ibRequestId,
     symbol |-> trim(trade.Symbol),
     order_type |-> trim(toLowerCase(trade.OrderType)),
     volume_lots |-> volumeLotsOf(trade.Volume),
     open_price |-> trade.OpenPrice,
     close_price |-> trade.ClosePrice,
     profit |-> trade.Profit,
     ib_commission |-> volumeLotsOf(trade.Volume) * usdPerLot,
     group_id |-> groupId]

\* a variant that always takes the first value
COALESCE_first(x, y) == x

\* SQL COALESCE of two values
COALESCE(x, y) == IF x # NULL THEN x ELSE y

\* a plausible slip: the conflict branch forgets to refresh profit
onConflictUpdate_staleProfit(old, new) ==
    [old EXCEPT !.volume_lots = new.volume_lots,
                !.close_price = new.close_price,
                !.ib_commission = new.ib_commission,
                !.group_id = COALESCE(new.group_id, old.group_id)]

\* ON CONFLICT (order_id) DO UPDATE SET ...
onConflictUpdate(old, new) ==
    [old EXCEPT !.volume_lots = new.volume_lots,
                !.close_price = new.close_price,
                !.profit = new.profit,
                !.ib_commission = new.ib_commission,
                !.group_id = COALESCE(new.group_id, old.group_id)]

\* the unique constraint the INSERT's ON CONFLICT clause names
conflictsWith(r, new) == r.order_id = new.order_id

\* INSERT ... ON CONFLICT (order_id) DO UPDATE
insertOnConflict(db, new) ==
    IF \E r \in db : conflictsWith(r, new)
    THEN { IF conflictsWith(r, new) THEN onConflictUpdate(r, new) ELSE r : r \in db }
    ELSE db \cup {new}

\* the row RETURNING * gives back for an executed upsert
returnedRow(db, new) == CHOOSE r \in insertOnConflict(db, new) : conflictsWith(r, new)

\* The loop of upsertTrades over trades[i..]. st.db is the table, st.saved the
\* rows pushed to `saved`, st.ran the indices whose INSERT was executed.
RECURSIVE upsertLoop(_, _, _, _, _, _, _, _)
upsertLoop(st, trades, i, accountId, userId, ibRequestId, usdPerLot, groupId) ==
    IF i > Len(trades) THEN st
    ELSE LET new == excludedRow(trades[i], accountId, userId, ibRequestId, usdPerLot, groupId)
         IN upsertLoop(
                IF admitted(trades[i])
                THEN [db |-> insertOnConflict(st.db, new),
                      saved |-> Append(st.saved, returnedRow(st.db, new)),
                      ran |-> st.ran \cup {i}]
                ELSE st,
                trades, i + 1, accountId, userId, ibRequestId, usdPerLot, groupId)

upsertTrades(db, trades, accountId, userId, ibRequestId, commissionMap, groupId) ==
    upsertLoop([db |-> db, saved |-> <<>>, ran |-> {}], trades, 1,
               accountId, userId, ibRequestId,
               usdPerLotOf(commissionMap, groupId), groupId)

----------------------------------------------------------------------------
(* IBTradeHistory.upsertTrades, the copy in src/models/IBTradeHistory.js:   *)
(* no admission filter beyond order id and symbol, no volume conversion,   *)
(* only the '*' rate, no group_id column.                                  *)

legacy_admitted(trade) ==
    /\ trade.OrderId # ""
    /\ trade.Symbol # <<>>

legacy_excludedRow(trade, accountId, userId, ibRequestId, usdPerLot) ==
    [id |-> <<accountId, trade.OrderId>>,
     order_id |-> trade.OrderId,
     account_id |-> accountId,
     user_id |-> userId,
     ib_request_id |-> ibRequestId,
     symbol |-> trade.Symbol,
     order_type |-> IF trade.OrderType = <<>> THEN S_buy ELSE trade.OrderType,
     volume_lots |-> trade.Volume,
     open_price |-> trade.OpenPrice,
     close_price |-> trade.ClosePrice,
     profit |-> trade.Profit,
     ib_commission |-> trade.Volume * usdPerLot,
     group_id |-> NULL]

legacy_onConflictUpdate(old, new) ==
    [old EXCEPT !.volume_lots = new.volume_lots,
                !.close_price = new.close_price,
                !.profit = new.profit,
                !.ib_commission = new.ib_commission]

legacy_insertOnConflict(db, new) ==
    IF \E r \in db : r.order_id = new.order_id
    THEN { IF r.order_id = new.order_id THEN legacy_onConflictUpdate(r, new) ELSE r : r \in db }
    ELSE db \cup {new}

RECURSIVE legacy_upsertLoop(_, _, _, _, _, _, _)
legacy_upsertLoop(st, trades, i, accountId, userId, ibRequestId, usdPerLot) ==
    IF i > Len(trades) THEN st
    ELSE LET new == legacy_excludedRow(trades[i], accountId, userId, ibRequestId, usdPerLot)
         IN legacy_upsertLoop(
                IF legacy_admitted(trades[i])
                THEN [db |-> legacy_insertOnConflict(st.db, new),
                      saved |-> Append(st.saved,
                                  CHOOSE r \in legacy_insertOnConflict(st.db, new) :
                                      r.order_id = new.order_id),
                      ran |-> st.ran \cup {i}]
                ELSE st,
                trades, i + 1, accountId, userId, ibRequestId, usdPerLot)

legacy_upsertTrades(db, trades, accountId, userId, ibRequestId, commissionMap) ==
    legacy_upsertLoop([db |-> db, saved |-> <<>>, ran |-> {}], trades, 1,
                      accountId, userId, ibRequestId,
                      IF S_star \in DOMAIN commissionMap
                      THEN commissionMap[S_star].usdPerLot ELSE 0)

----------------------------------------------------------------------------
(* The state the server starts from *)

\* a row of ib_group_assignments
Assignment(ib, gid, gname, usd, pct) ==
    [ib_request_id |-> ib, group_id |-> gid, group_name |-> gname,
     usd_per_lot |-> usd, spread_share_percentage |-> pct]

\* Partner 1 was approved by the single-group branch of PUT /:id/status, which
\* stores one rule with group_name NULL. Partner 2 was approved by the older
\* status route, which stores the default rates on the partner row and no rule.
InitialRequests ==
    [ib \in Partners |->
        IF ib = 1
        THEN [status |-> "approved", usd_per_lot |-> 15, spread_percentage_per_lot |-> 20]
        ELSE [status |-> "approved", usd_per_lot |-> 4, spread_percentage_per_lot |-> 10]]

InitialAssignments == { Assignment(1, G_Std, NULL, 15, 20) }

\* no partner has chosen a referral code and no request is in flight
NoReferralCodes ==
    [code |-> [ib \in Partners |-> NULL],
     req |-> [ib \in Partners |-> [pc |-> "idle", trimmedCode |-> NULL]]]

NoBatch == [engine |-> "none", accountId |-> "A1", trades |-> <<>>, ran |-> {}, threw |-> {},
            groupId |-> NULL, usdPerLot |-> 0]

\* per order id: the last raw item for which the INSERT was executed, and
\* whether one was never, once, or more than once (0, 1, 2)
NeverIngested == [item |-> Item("", <<>>, <<>>, 0, 0, 0, 0), n |-> 0, synced_at |-> 0]

SchedIdle == [pc |-> "idle", ibUsers |-> <<>>, ib |-> 0, userId |-> "",
              commissionMap |-> <<>>, accounts |-> <<>>]

AdminIdle == [pc |-> "idle", route |-> "", ibRequestId |-> 0, userId |-> "",
              accounts |-> <<>>]

NeverSynced == [done |-> 0, first |-> {}, groupKnown |-> TRUE]

NoRequest == [route |-> "none"]

NoAgg == [path |-> "none"]

Init ==
    /\ ledger = {}
    /\ lastBatch = NoBatch
    /\ lastRaw = [o \in OrderIdsUp \cup {""} |-> NeverIngested]
    /\ ops = 0
    /\ ibRequests = InitialRequests
    /\ assignments = InitialAssignments
    /\ referralCodes = NoReferralCodes
    /\ sched = SchedIdle
    /\ admin = AdminIdle
    /\ syncLog = [a \in Accounts |-> NeverSynced]
    /\ withdrawals = {}
    /\ tokens = {}
    /\ lastRequest = NoRequest
    /\ lastAgg = NoAgg

----------------------------------------------------------------------------
(* Ingestion calls against the ledger *)

Rule(usd, pct) == [usdPerLot |-> usd, spreadPercentage |-> pct]

\* The callers of upsertTrades: the account and partner they ingest for, the
\* rule map they pass and the group the profile call resolved. The scheduler
\* for partner 1 (rule for Std), the same with the profile call failed, the
\* scheduler for partner 2 (no rules: '*' entry), and an admin sync (no rule
\* map) of account A2 under partner 1, whose client its user is.
IngestionCalls ==
    { [accountId |-> "A1", ibRequestId |-> 1, groupId |-> G_Std,
       commissionMap |-> [k \in {toLowerCase(G_Std)} |-> Rule(15, 20)]],
      [accountId |-> "A1", ibRequestId |-> 1, groupId |-> NULL,
       commissionMap |-> [k \in {toLowerCase(G_Std)} |-> Rule(15, 20)]],
      [accountId |-> "A2", ibRequestId |-> 2, groupId |-> G_Pro,
       commissionMap |-> [k \in {S_star} |-> Rule(4, 10)]],
      [accountId |-> "A2", ibRequestId |-> 1, groupId |-> G_realStd,
       commissionMap |-> <<>>],
      [accountId |-> "A2", ibRequestId |-> 1, groupId |-> G_Pro,
       commissionMap |-> <<>>],
      [accountId |-> "A2", ibRequestId |-> 2, groupId |-> G_DemoPro,
       commissionMap |-> [k \in {S_star} |-> Rule(4, 10)]] }

LegacyIngestionCalls ==
    { [accountId |-> "A1", ibRequestId |-> 1, commissionMap |-> <<>>],
      [accountId |-> "A2", ibRequestId |-> 2,
       commissionMap |-> [k \in {S_star} |-> Rule(4, 10)]] }

\* `now` is CURRENT_TIMESTAMP of the statements: both the VALUES list and the
\* DO UPDATE SET list write it to synced_at (and the latter to updated_at)
RECURSIVE lastRawAfter(_, _, _, _, _)
lastRawAfter(lr, trades, ran, i, now) ==
    IF i > Len(trades) THEN lr
    ELSE lastRawAfter(
            IF i \in ran
            THEN [lr EXCEPT ![trades[i].OrderId] =
                     [item |-> trades[i],
                      n |-> IF lr[trades[i].OrderId].n < 2
                            THEN lr[trades[i].OrderId].n + 1 ELSE 2,
                      synced_at |-> now]]
            ELSE lr,
            trades, ran, i + 1, now)

\* a caller (scheduler or admin sync) hands one upstream response to upsertTrades
\* (a behaviour that observes an aggregation ends with it)
UpsertTradesCall ==
    /\ ops < MaxOps
    /\ lastAgg = NoAgg
    /\ \E c \in IngestionCalls, trades \in Responses :
        LET out == upsertTrades(ledger, trades, c.accountId, accountUser(c.accountId),
                                c.ibRequestId, c.commissionMap, c.groupId)
        IN /\ ledger' = out.db
           /\ lastBatch' = [engine |-> "current", accountId |-> c.accountId,
                            trades |-> trades, ran |-> out.ran, threw |-> {},
                            groupId |-> c.groupId,
                            usdPerLot |-> usdPerLotOf(c.commissionMap, c.groupId)]
           /\ lastRaw' = lastRawAfter(lastRaw, trades, out.ran, 1, ops + 1)
    /\ ops' = ops + 1
    /\ UNCHANGED <<partnerVars, syncVars, portalVars>>

\* the same call served by the copy in src/models/IBTradeHistory.js
LegacyUpsertTradesCall ==
    /\ ops < MaxOps
    /\ \E c \in LegacyIngestionCalls, trades \in Responses :
        LET out == legacy_upsertTrades(ledger, trades, c.accountId,
                                       accountUser(c.accountId), c.ibRequestId,
                                       c.commissionMap)
        IN /\ ledger' = out.db
           /\ lastBatch' = [engine |-> "legacy", accountId |-> c.accountId,
                            trades |-> trades, ran |-> out.ran, threw |-> {},
                            groupId |-> NULL,
                            usdPerLot |-> usdPerLotOf(c.commissionMap, NULL)]
           /\ lastRaw' = lastRawAfter(lastRaw, trades, out.ran, 1, ops + 1)
    /\ ops' = ops + 1
    /\ UNCHANGED <<partnerVars, syncVars, portalVars>>

NextLedger == UpsertTradesCall \/ LegacyUpsertTradesCall

SpecLedger == Init /\ [][NextLedger]_vars

----------------------------------------------------------------------------
(* IBTradeHistory.calculateIBCommissions *)

\* lower(COALESCE(x, ''))
lowerCoalesce(x) == IF x = NULL THEN <<>> ELSE toLowerCase(x)

\* the join condition between a ledger row t and a rule a
calcMatches(t, a) ==
    \/ lowerCoalesce(t.group_id) = lowerCoalesce(a.group_id)
    \/ lowerCoalesce(t.group_id) = lowerCoalesce(a.group_name)
    \/ lastSegment(lowerCoalesce(t.group_id)) = lastSegment(lowerCoalesce(a.group_id))

\* the rules the UPDATE .. FROM joins to row t
calcRulesFor(rules, t, accountId, ibRequestId) ==
    { a \in rules : /\ t.account_id = accountId
                    /\ t.ib_request_id = ibRequestId
                    /\ t.close_price # 0
                    /\ a.ib_request_id = ibRequestId
                    /\ calcMatches(t, a) }

\* The tables the UPDATE can leave behind: a row joined to several rules is
\* updated from one of them, and SQL does not say which.
calculateIBCommissions(db, rules, accountId, ibRequestId) ==
    LET targets == { t \in db : calcRulesFor(rules, t, accountId, ibRequestId) # {} }
        picks == { f \in [targets -> rules] :
                     \A t \in targets : f[t] \in calcRulesFor(rules, t, accountId, ibRequestId) }
    IN { { IF t \in targets
           THEN [t EXCEPT !.ib_commission = t.volume_lots * f[t].usd_per_lot]
           ELSE t : t \in db } : f \in picks }

----------------------------------------------------------------------------
(* The sync paths: autoSyncTrades, POST /sync/:accountId, POST /sync-user/:id *)

MaxSyncs == 3      \* account syncs (upsertTrades calls of a sync path) in one behaviour

\* "User" looked up by the partner's email
partnerUser(ib) == IF ib = 1 THEN "u1" ELSE "u2"

\* "MT5Account" rows of a user, in the order the query returns them
userAccounts(u) == IF u = "u1" THEN <<"A1", "A3">> ELSE <<"A2">>

\* Data.Group of the broker's client profile of an account
profileGroup(a) == IF a \in {"A1", "A3"} THEN G_Std ELSE G_Pro

\* Items of the broker's trade history of an account
upstreamTrades(a) ==
    IF a = "A1" THEN <<I_p12, I_zeroProfit>>
    ELSE IF a = "A2" THEN <<I_loss>>
    ELSE <<>>

\* what the profile call can resolve the group to: it, or null when the call fails
ResolvedGroups(a) == {profileGroup(a), NULL}

\* the orders in which a query without ORDER BY can return the approved partners
RECURSIVE Orderings(_)
Orderings(S) ==
    IF S = {} THEN {<<>>}
    ELSE UNION { { <<x>> \o rest : rest \in Orderings(S \ {x}) } : x \in S }

\* the reduce over the partner's rules, and the '*' entry when it leaves no key
buildCommissionMap(rules, ib) ==
    LET rows == { a \in rules : a.ib_request_id = ib.id /\ truthy(a.group_id) }
        keys == { toLowerCase(a.group_id) : a \in rows }
    IN IF keys = {}
       THEN [k \in {S_star} |-> Rule(ib.usd_per_lot, ib.spread_percentage_per_lot)]
       ELSE [k \in keys |->
               LET a == CHOOSE a \in rows : toLowerCase(a.group_id) = k
               IN Rule(a.usd_per_lot, a.spread_share_percentage)]

\* the bookkeeping of a completed account sync
syncLogAfter(log, a, db) ==
    [log EXCEPT ![a] = [done |-> IF @.done < 2 THEN @.done + 1 ELSE 2,
                        first |-> IF @.done = 0
                                  THEN { r \in db : r.account_id = a } ELSE @.first,
                        groupKnown |-> @.groupKnown]]

\* the bookkeeping of an upsertTrades call made by a sync path
syncLogUpsert(log, a, groupId) ==
    [log EXCEPT ![a].groupKnown = @ /\ groupId # NULL]

\* setInterval / setTimeout fire autoSyncTrades: it reads the approved partners
TimerTick ==
    /\ sched.pc = "idle"
    /\ ops < MaxSyncs
    /\ \E order \in Orderings({ ib \in Partners : ibRequests[ib].status = "approved" }) :
         sched' = [SchedIdle EXCEPT
                     !.pc = IF order = <<>> THEN "idle" ELSE "partner",
                     !.ibUsers = [i \in 1..Len(order) |->
                                    [id |-> order[i],
                                     usd_per_lot |-> ibRequests[order[i]].usd_per_lot,
                                     spread_percentage_per_lot |->
                                         ibRequests[order[i]].spread_percentage_per_lot]]]
    /\ UNCHANGED <<ledgerVars, ops, partnerVars, admin, syncLog, portalVars>>

\* the head of the per-partner loop: user, rule map, accounts
SchedPartner ==
    /\ sched.pc = "partner"
    /\ LET ib == Head(sched.ibUsers)
       IN sched' = [sched EXCEPT !.pc = "account",
                                 !.ib = ib.id,
                                 !.ibUsers = Tail(@),
                                 !.userId = partnerUser(ib.id),
                                 !.commissionMap = buildCommissionMap(assignments, ib),
                                 !.accounts = userAccounts(partnerUser(ib.id))]
    /\ UNCHANGED <<ledgerVars, ops, partnerVars, admin, syncLog, portalVars>>

\* where the pass goes when the account at the head of its list is done
schedAdvance(sc) ==
    IF Len(sc.accounts) > 1 THEN [sc EXCEPT !.pc = "account", !.accounts = Tail(@)]
    ELSE IF sc.ibUsers # <<>> THEN [sc EXCEPT !.pc = "partner", !.accounts = <<>>]
    ELSE SchedIdle

\* the body of the per-account loop up to upsertTrades: the trade-history call
\* answers ok and the trades are upserted with the partner's rule map
SchedUpsert ==
    /\ sched.pc = "account"
    /\ ops < MaxSyncs
    /\ \E groupId \in ResolvedGroups(Head(sched.accounts)) :
         LET a == Head(sched.accounts)
             out == upsertTrades(ledger, upstreamTrades(a), a, sched.userId, sched.ib,
                                 sched.commissionMap, groupId)
         IN /\ ledger' = out.db
            /\ lastBatch' = [engine |-> "current", accountId |-> a,
                             trades |-> upstreamTrades(a), ran |-> out.ran, threw |-> {},
                             groupId |-> groupId,
                             usdPerLot |-> usdPerLotOf(sched.commissionMap, groupId)]
            /\ lastRaw' = lastRawAfter(lastRaw, upstreamTrades(a), out.ran, 1, ops + 1)
            /\ syncLog' = syncLogUpsert(syncLog, a, groupId)
    /\ ops' = ops + 1
    /\ sched' = [sched EXCEPT !.pc = "calc"]
    /\ UNCHANGED <<partnerVars, admin, portalVars>>

\* the trade-history call fails or answers not-ok: the account is skipped
SchedFetchFails ==
    /\ sched.pc = "account"
    /\ sched' = schedAdvance(sched)
    /\ UNCHANGED <<ledgerVars, ops, partnerVars, admin, syncLog, portalVars>>

\* calculateIBCommissions closes the account's sync
SchedCalc ==
    /\ sched.pc = "calc"
    /\ \E db \in calculateIBCommissions(ledger, assignments, Head(sched.accounts), sched.ib) :
         /\ ledger' = db
         /\ syncLog' = syncLogAfter(syncLog, Head(sched.accounts), db)
    /\ sched' = schedAdvance(sched)
    /\ UNCHANGED <<lastBatch, lastRaw, ops, partnerVars, admin, portalVars>>

\* POST /sync/:accountId is received: the account's user is looked up and the
\* request body names the partner (the admin console sends the account's partner)
AdminSyncAccount ==
    /\ admin.pc = "idle"
    /\ ops < MaxSyncs
    /\ \E a \in Accounts :
         admin' = [pc |-> "account", route |-> "/sync/:accountId",
                   ibRequestId |-> userPartner(accountUser(a)),
                   userId |-> accountUser(a), accounts |-> <<a>>]
    /\ UNCHANGED <<ledgerVars, ops, partnerVars, sched, syncLog, portalVars>>

\* POST /sync-user/:ibRequestId is received: the partner's user and accounts
AdminSyncUser ==
    /\ admin.pc = "idle"
    /\ ops < MaxSyncs
    /\ \E ib \in Partners :
         admin' = [pc |-> "account", route |-> "/sync-user/:ibRequestId",
                   ibRequestId |-> ib, userId |-> partnerUser(ib),
                   accounts |-> userAccounts(partnerUser(ib))]
    /\ UNCHANGED <<ledgerVars, ops, partnerVars, sched, syncLog, portalVars>>

\* both admin routes up to upsertTrades, which they call without a rule map
AdminUpsert ==
    /\ admin.pc = "account"
    /\ ops < MaxSyncs
    /\ \E groupId \in ResolvedGroups(Head(admin.accounts)) :
         LET a == Head(admin.accounts)
             out == upsertTrades(ledger, upstreamTrades(a), a, admin.userId,
                                 admin.ibRequestId, <<>>, groupId)
         IN /\ ledger' = out.db
            /\ lastBatch' = [engine |-> "current", accountId |-> a,
                             trades |-> upstreamTrades(a), ran |-> out.ran, threw |-> {},
                             groupId |-> groupId,
                             usdPerLot |-> usdPerLotOf(<<>>, groupId)]
            /\ lastRaw' = lastRawAfter(lastRaw, upstreamTrades(a), out.ran, 1, ops + 1)
            /\ syncLog' = syncLogUpsert(syncLog, a, groupId)
    /\ ops' = ops + 1
    /\ admin' = [admin EXCEPT !.pc = "calc"]
    /\ UNCHANGED <<partnerVars, sched, portalVars>>

\* calculateIBCommissions closes the account's sync; the response is sent
\* after the last account
AdminCalc ==
    /\ admin.pc = "calc"
    /\ \E db \in calculateIBCommissions(ledger, assignments, Head(admin.accounts),
                                         admin.ibRequestId) :
         /\ ledger' = db
         /\ syncLog' = syncLogAfter(syncLog, Head(admin.accounts), db)
    /\ admin' = IF Len(admin.accounts) > 1
                THEN [admin EXCEPT !.pc = "account", !.accounts = Tail(@)]
                ELSE AdminIdle
    /\ UNCHANGED <<lastBatch, lastRaw, ops, partnerVars, sched, portalVars>>

NextSync ==
    \/ TimerTick \/ SchedPartner \/ SchedUpsert \/ SchedFetchFails \/ SchedCalc
    \/ AdminSyncAccount \/ AdminSyncUser \/ AdminUpsert \/ AdminCalc

SpecSync == Init /\ [][NextSync]_vars

\* no sync path is between its upsertTrades and its calculateIBCommissions for a
syncInFlight(a) ==
    \/ sched.pc = "calc" /\ Head(sched.accounts) = a
    \/ admin.pc = "calc" /\ Head(admin.accounts) = a

\* C4 (as claimed): once a sync of an account has completed, every later
\* completed sync of it, by whichever path, leaves the account's rows exactly as
\* the first one did (upstream trades, group and rules being fixed), stored
\* ib_commission included.
C4_SyncConvergent ==
    \A a \in Accounts :
        (syncLog[a].done >= 1 /\ syncLog[a].groupKnown /\ ~syncInFlight(a)) =>
            { r \in ledger : r.account_id = a } = syncLog[a].first

\* the rules of a partner that the account's group matches, under the widest
\* matching the code uses (case-insensitive id, name, or last path segment)
rulesMatchingGroup(ib, g) ==
    { a \in assignments : a.ib_request_id = ib /\ calcMatches([group_id |-> g], a) }

\* C8 (as claimed): after a completed sync every stored row's ib_commission is
\* volume_lots x the usd_per_lot of a rule of its partner that matches the
\* account's group, and 0 when no rule of the partner matches it.
C8_FixedCommissionFromRule ==
    \A r \in ledger :
        (syncLog[r.account_id].done >= 1 /\ ~syncInFlight(r.account_id)) =>
            LET M == rulesMatchingGroup(r.ib_request_id, profileGroup(r.account_id))
            IN IF M = {} THEN r.ib_commission = 0
               ELSE \E m \in M : r.ib_commission = r.volume_lots * m.usd_per_lot

----------------------------------------------------------------------------
(* Group keys of the aggregation paths *)

\* s.replace(/\\\\/g, '/'): every pair of backslashes becomes a slash
RECURSIVE replaceBackslashPairs(_)
replaceBackslashPairs(s) ==
    IF s = <<>> THEN <<>>
    ELSE IF Len(s) >= 2 /\ s[1] = "\\" /\ s[2] = "\\"
         THEN <<"/">> \o replaceBackslashPairs(SubSeq(s, 3, Len(s)))
         ELSE <<s[1]>> \o replaceBackslashPairs(Tail(s))

\* s.replace(/\//g, '\\')
replaceSlashes(s) == [i \in 1..Len(s) |-> IF s[i] = "/" THEN "\\" ELSE s[i]]

\* s.split(/[\\/]/): the parts between separators; cur is the part being read
RECURSIVE splitParts(_, _)
splitParts(s, cur) ==
    IF s = <<>> THEN <<cur>>
    ELSE IF Head(s) \in {"/", "\\"}
         THEN <<cur>> \o splitParts(Tail(s), <<>>)
         ELSE splitParts(Tail(s), Append(cur, Head(s)))

S_bbook == <<"b","b","o","o","k">>

\* the part after the first 'bbook' part, <<>> when there is none
afterBbook(parts) ==
    IF \E i \in 1..Len(parts) : parts[i] = S_bbook /\ i + 1 <= Len(parts)
    THEN parts[(CHOOSE i \in 1..Len(parts) :
                    /\ parts[i] = S_bbook /\ i + 1 <= Len(parts)
                    /\ \A j \in 1..(i - 1) : parts[j] # S_bbook) + 1]
    ELSE <<>>

\* a variant that leaves the short key out
makeKeys_noShortKey(gid) ==
    IF ~truthy(gid) THEN <<>>
    ELSE LET str == trim(toLowerCase(gid))
             parts == splitParts(str, <<>>)
         IN <<str, replaceBackslashPairs(str), replaceSlashes(str)>>
            \o (IF afterBbook(parts) # <<>> THEN <<afterBbook(parts)>> ELSE <<>>)

\* makeKeys of getSummary and of commission-analytics, in insertion order
makeKeys(gid) ==
    IF ~truthy(gid) THEN <<>>
    ELSE LET str == trim(toLowerCase(gid))
             parts == splitParts(str, <<>>)
             last == IF parts[Len(parts)] # <<>> THEN parts[Len(parts)] ELSE str
         IN <<str, replaceBackslashPairs(str), replaceSlashes(str), last>>
            \o (IF afterBbook(parts) # <<>> THEN <<afterBbook(parts)>> ELSE <<>>)

\* normalize of the dashboard and of /commission: the last path segment
normalize(gid) ==
    IF ~truthy(gid) THEN <<>>
    ELSE LET str == trim(toLowerCase(gid))
             parts == splitParts(str, <<>>)
         IN IF parts[Len(parts)] # <<>> THEN parts[Len(parts)] ELSE str

\* String(x || '').toLowerCase()
lowerOrEmpty(x) == IF truthy(x) THEN toLowerCase(x) ELSE <<>>

\* the elements of a sequence
Range(f) == { f[i] : i \in DOMAIN f }

\* the first element of seq that is in S, <<>> when none is
firstIn(seq, S) ==
    IF \E i \in 1..Len(seq) : seq[i] \in S
    THEN seq[CHOOSE i \in 1..Len(seq) : seq[i] \in S /\ \A j \in 1..(i - 1) : seq[j] \notin S]
    ELSE <<>>

\* the sum of f over the finite set S
RECURSIVE SumOver(_, _)
SumOver(S, f) ==
    IF S = {} THEN 0
    ELSE LET x == CHOOSE x \in S : TRUE IN f[x] + SumOver(S \ {x}, f)

----------------------------------------------------------------------------
(* Commission aggregation.  Amounts returned by an aggregation are in units  *)
(* of 1/100000 dollar: 100 x ib_commission, and volume_lots x percentage.    *)

rulesOf(rules, ib) == { a \in rules : a.ib_request_id = ib }

\* LOWER(group_id) LIKE '%demo%'
likeDemo(g) ==
    \E i \in 1..(Len(g) - 3) : SubSeq(toLowerCase(g), i, i + 3) = <<"d","e","m","o">>

\* the closed trades with a profit that the partner's aggregations select
aggregableRows(db, ib) ==
    { r \in db : r.ib_request_id = ib /\ r.close_price # 0 /\ r.profit # 0 }

fixedOf(rows) == 100 * SumOver(rows, [r \in rows |-> r.ib_commission])
lotsOf(rows) == SumOver(rows, [r \in rows |-> r.volume_lots])

\* What an aggregation returns, with the trades its loop added up (counted) and,
\* for those of them it found a rule for, their lots and the rule's percentage.
AggResult(fixed, spread, counted, matched) ==
    [fixed |-> fixed, spread |-> spread, total |-> fixed + spread,
     counted |-> counted, matched |-> matched]

Counted(trade, profit) == [trade |-> trade, profit |-> profit]
Matched(trade, lots, pct) == [trade |-> trade, lots |-> lots, pct |-> pct]
countedRows(rows) == { Counted(r.id, r.profit) : r \in rows }

\* IBWithdrawal.getSummary, the keys of approvedMap
summaryKeys(rules, ib) == UNION { Range(makeKeys(a.group_id)) : a \in rulesOf(rules, ib) }

\* approvedMap[k]; were two rules to share a key, the later row would win
summaryPct(rules, ib, k) ==
    (CHOOSE a \in rulesOf(rules, ib) : k \in Range(makeKeys(a.group_id))).spread_share_percentage

\* a variant that charges the partner's default percentage to unmatched groups
summaryGroupSpread_defaultPct(rules, ib, rows, g) ==
    LET k == firstIn(makeKeys(g), summaryKeys(rules, ib))
    IN lotsOf({ r \in rows : r.group_id = g })
         * (IF k = <<>> THEN 20 ELSE summaryPct(rules, ib, k))

\* lots * pct of one GROUP BY row; 0 for a group the loop skips
summaryGroupSpread(rules, ib, rows, g) ==
    LET k == firstIn(makeKeys(g), summaryKeys(rules, ib))
    IN IF k = <<>> THEN 0
       ELSE lotsOf({ r \in rows : r.group_id = g }) * summaryPct(rules, ib, k)

\* the try branch of getSummary: earnings of the approved groups
summaryEarned(db, rules, ib) ==
    IF summaryKeys(rules, ib) = {} THEN AggResult(0, 0, {}, {})
    ELSE LET allowed == Range(userAccounts(partnerUser(ib)))
             rows == { r \in aggregableRows(db, ib) :
                         /\ r.group_id = NULL \/ ~likeDemo(r.group_id)
                         /\ allowed # {} => r.account_id \in allowed }
             groups == { r.group_id : r \in rows }
             hit == { g \in groups : firstIn(makeKeys(g), summaryKeys(rules, ib)) # <<>> }
             counted == { r \in rows : r.group_id \in hit }
         IN AggResult(fixedOf(counted),
                      SumOver(groups, [g \in groups |-> summaryGroupSpread(rules, ib, rows, g)]),
                      countedRows(counted),
                      { Matched(r.id, r.volume_lots,
                                summaryPct(rules, ib,
                                    firstIn(makeKeys(r.group_id), summaryKeys(rules, ib)))) :
                          r \in counted })

\* the catch branch of getSummary: every row of the partner, no spread
summaryFallback(db, ib) ==
    LET rows == { r \in db : r.ib_request_id = ib }
    IN AggResult(fixedOf(rows), 0, countedRows(rows), {})

\* the sums over ib_withdrawal_requests, in dollars
totalPaidOf(wd, ib) ==
    LET rows == { w \in wd : w.ib_request_id = ib /\ w.status \in {"paid", "completed"} }
    IN SumOver(rows, [w \in rows |-> w.amount])

pendingOf(wd, ib) ==
    LET rows == { w \in wd : w.ib_request_id = ib /\ w.status = "pending" }
    IN SumOver(rows, [w \in rows |-> w.amount])

\* Math.max(x, 0)
max0(x) == IF x > 0 THEN x ELSE 0

\* IBWithdrawal.getSummary; failed says that a query of the try branch threw
getSummary(db, rules, wd, ib, failed) ==
    LET e == IF failed THEN summaryFallback(db, ib) ELSE summaryEarned(db, rules, ib)
    IN [totalEarned |-> e.total, totalPaid |-> 100000 * totalPaidOf(wd, ib),
        pending |-> 100000 * pendingOf(wd, ib),
        available |-> max0(e.total - 100000 * totalPaidOf(wd, ib)
                                   - 100000 * pendingOf(wd, ib)),
        fixedEarned |-> e.fixed, spreadEarned |-> e.spread,
        counted |-> e.counted, matched |-> e.matched]

\* ib_requests.referred_by: partner 2 applied under partner 1's referral code
referredPartners(ib) == IF ib = 1 THEN {2} ELSE {}

\* ib_referrals.user_id: partner 2's user is also attached, as a trader, to
\* partner 2's own referral code
crmReferrals(ib) == IF ib = 2 THEN {"u2"} ELSE {}

\* getReferredUserIds: the users a partner referred, from both tables
referredUserIds(ib) == { partnerUser(p) : p \in referredPartners(ib) } \cup crmReferrals(ib)

\* getIBUserId: the partner's own user id; null ("") when the lookup throws
getIBUserId(ib, failed) == IF failed THEN "" ELSE partnerUser(ib)

\* the keys the dashboard and /commission file a rule under
routeKeysOf(a) ==
    { lowerOrEmpty(a.group_id), lowerOrEmpty(a.group_name), normalize(a.group_id) } \ {<<>>}

routeKeys(rules, ib) == UNION { routeKeysOf(a) : a \in rulesOf(rules, ib) }

\* approvedMap.get(normalize(g)) || approvedMap.get(lower(g)): the key that hits
routeKeyFor(rules, ib, g) ==
    firstIn(<<normalize(g), lowerOrEmpty(g)>>, routeKeys(rules, ib))

routePct(rules, ib, k) ==
    (CHOOSE a \in rulesOf(rules, ib) : k \in routeKeysOf(a)).spread_share_percentage

\* the dashboard's assignment for a group: the rule, or { 0, 0 } when none
dashboardPct(rules, ib, g) ==
    IF routeKeyFor(rules, ib, g) = <<>> THEN 0
    ELSE routePct(rules, ib, routeKeyFor(rules, ib, g))

\* GET / of the dashboard: balance from the referred users' trades
dashboard(db, rules, requests, ib, ibUserIdForExclusion) ==
    IF requests[ib].status # "approved" \/ referredUserIds(ib) = {}
    THEN AggResult(0, 0, {}, {})
    ELSE LET rows == { r \in aggregableRows(db, ib) :
                         /\ ibUserIdForExclusion # "" => r.user_id # ibUserIdForExclusion
                         /\ r.user_id \in referredUserIds(ib) }
             groups == { r.group_id : r \in rows }
         IN AggResult(fixedOf(rows),
                      SumOver(groups, [g \in groups |->
                          lotsOf({ r \in rows : r.group_id = g }) * dashboardPct(rules, ib, g)]),
                      countedRows(rows),
                      { Matched(r.id, r.volume_lots,
                                routePct(rules, ib, routeKeyFor(rules, ib, r.group_id))) :
                          r \in { x \in rows : routeKeyFor(rules, ib, x.group_id) # <<>> } })

\* GET /commission: totals over the partner's own accounts and approved groups
commissionTotals(db, rules, ib) ==
    LET allowed == Range(userAccounts(partnerUser(ib)))
        filtered == { r \in aggregableRows(db, ib) :
                        /\ r.account_id \in allowed
                        /\ routeKeyFor(rules, ib, r.group_id) # <<>> }
    IN AggResult(fixedOf(filtered),
                 SumOver(filtered, [r \in filtered |->
                     r.volume_lots * dashboardPct(rules, ib, r.group_id)]),
                 countedRows(filtered),
                 { Matched(r.id, r.volume_lots,
                           routePct(rules, ib, routeKeyFor(rules, ib, r.group_id))) :
                     r \in filtered })

\* the keys commission-analytics files a rule under
analyticsKeysOf(a) ==
    { lowerOrEmpty(a.group_id), lowerOrEmpty(a.group_name),
      normalize(lowerOrEmpty(a.group_id)) } \ {<<>>}

\* the checks of fetchTradesForAccount's loop
analyticsCounts(t) ==
    /\ trim(toLowerCase(t.OrderType)) \in {S_buy, S_sell}
    /\ t.ClosePrice # 0 /\ t.OpenPrice # 0 /\ t.Volume # 0

\* GET /commission-analytics: totals straight from the broker's trade history
\* of the partner's accounts; items are counted as <<account, index>>
commissionAnalytics(rules, ib) ==
    LET keys == UNION { analyticsKeysOf(a) : a \in rulesOf(rules, ib) }
        ruleFor(a) == firstIn(makeKeys(profileGroup(a)), keys)
        rule(a) == CHOOSE x \in rulesOf(rules, ib) : ruleFor(a) \in analyticsKeysOf(x)
        accts == { a \in Range(userAccounts(partnerUser(ib))) :
                     ~likeDemo(profileGroup(a)) /\ ruleFor(a) # <<>> }
        items == UNION { { <<a, i>> : i \in { j \in 1..Len(upstreamTrades(a)) :
                                                  analyticsCounts(upstreamTrades(a)[j]) } } :
                         a \in accts }
        lots(it) == volumeLotsOf(upstreamTrades(it[1])[it[2]].Volume)
    IN AggResult(100 * SumOver(items, [it \in items |-> lots(it) * rule(it[1]).usd_per_lot]),
                 SumOver(items, [it \in items |->
                     lots(it) * rule(it[1]).spread_share_percentage]),
                 { Counted(it, upstreamTrades(it[1])[it[2]].Profit) : it \in items },
                 { Matched(it, lots(it), rule(it[1]).spread_share_percentage) : it \in items })

\* norm of /quick-reports: the last path segment, nothing trimmed
norm(gid) ==
    IF ~truthy(gid) THEN <<>>
    ELSE LET s == toLowerCase(gid)
             parts == splitParts(s, <<>>)
         IN IF parts[Len(parts)] # <<>> THEN parts[Len(parts)] ELSE s

\* the keys /quick-reports files a rule under
quickKeysOf(a) ==
    { lowerOrEmpty(a.group_id), lowerOrEmpty(a.group_name), norm(a.group_id) } \ {<<>>}

\* norm(g) || lower(g): the one key /quick-reports looks a group up by
quickKeyFor(g) == IF norm(g) # <<>> THEN norm(g) ELSE lowerOrEmpty(g)

\* spreadPct.get(k) || 0
quickPct(rules, ib, g) ==
    IF \E a \in rulesOf(rules, ib) : quickKeyFor(g) \in quickKeysOf(a)
    THEN (CHOOSE a \in rulesOf(rules, ib) :
              quickKeyFor(g) \in quickKeysOf(a)).spread_share_percentage
    ELSE 0

\* GET /quick-reports: the commission series summed over its days, the range
\* taken wide enough to hold every stored trade
quickReports(db, rules, requests, ib) ==
    IF requests[ib].status # "approved" THEN AggResult(0, 0, {}, {})
    ELSE LET rows == aggregableRows(db, ib)
             hit == { r \in rows : \E a \in rulesOf(rules, ib) :
                                      quickKeyFor(r.group_id) \in quickKeysOf(a) }
         IN AggResult(fixedOf(rows),
                      SumOver(rows, [r \in rows |->
                          r.volume_lots * quickPct(rules, ib, r.group_id)]),
                      countedRows(rows),
                      { Matched(r.id, r.volume_lots, quickPct(rules, ib, r.group_id)) :
                          r \in hit })

\* the rows a LEFT JOIN of "MT5Account" repeats a user's trades over
fanOut(u) == IF Len(userAccounts(u)) = 0 THEN 1 ELSE Len(userAccounts(u))

\* GET / of the clients list: stats.totalCommission over the referred partners
\* and the CRM-referred traders whose e-mail is not among those partners'
clientsStats(db, ib) ==
    LET applicants == { partnerUser(p) : p \in referredPartners(ib) }
        users == applicants \cup (crmReferrals(ib) \ applicants)
        rows == { r \in aggregableRows(db, ib) : r.user_id \in users }
    IN AggResult(100 * SumOver(rows, [r \in rows |-> fanOut(r.user_id) * r.ib_commission]),
                 0, countedRows(rows), {})

\* What is remembered of an aggregation call. The aggregation routes only
\* read; a behaviour follows the first one made, so each of them is enabled
\* while none has been made.
aggOf(path, ib, res) ==
    [path |-> path, ib |-> ib, fixed |-> res.fixed, spread |-> res.spread,
     total |-> res.total, counted |-> res.counted, matched |-> res.matched]

\* GET /withdrawals/summary
GetWithdrawalSummary ==
    /\ lastAgg = NoAgg
    /\ \E ib \in Partners, failed \in BOOLEAN :
         LET sm == getSummary(ledger, assignments, withdrawals, ib, failed)
         IN lastAgg' = aggOf(IF failed THEN "getSummary/catch" ELSE "getSummary", ib,
                             AggResult(sm.fixedEarned, sm.spreadEarned,
                                       sm.counted, sm.matched))
                        @@ [totalEarned |-> sm.totalEarned, totalPaid |-> sm.totalPaid,
                            pending |-> sm.pending, available |-> sm.available]
    /\ UNCHANGED <<ledgerVars, ops, partnerVars, syncVars, withdrawals, tokens, lastRequest>>

\* GET / of the dashboard
GetDashboard ==
    /\ lastAgg = NoAgg
    /\ \E ib \in Partners, lookupFailed \in BOOLEAN :
         lastAgg' = aggOf(IF lookupFailed THEN "dashboard/no-own-id" ELSE "dashboard", ib,
                          dashboard(ledger, assignments, ibRequests, ib,
                                    getIBUserId(ib, lookupFailed)))
    /\ UNCHANGED <<ledgerVars, ops, partnerVars, syncVars, withdrawals, tokens, lastRequest>>

\* GET /commission
GetCommission ==
    /\ lastAgg = NoAgg
    /\ \E ib \in Partners :
         lastAgg' = aggOf("commission", ib, commissionTotals(ledger, assignments, ib))
    /\ UNCHANGED <<ledgerVars, ops, partnerVars, syncVars, withdrawals, tokens, lastRequest>>

\* GET /commission-analytics
GetCommissionAnalytics ==
    /\ lastAgg = NoAgg
    /\ \E ib \in Partners :
         lastAgg' = aggOf("commission-analytics", ib, commissionAnalytics(assignments, ib))
    /\ UNCHANGED <<ledgerVars, ops, partnerVars, syncVars, withdrawals, tokens, lastRequest>>

\* GET /quick-reports
GetQuickReports ==
    /\ lastAgg = NoAgg
    /\ \E ib \in Partners :
         lastAgg' = aggOf("quick-reports", ib,
                          quickReports(ledger, assignments, ibRequests, ib))
    /\ UNCHANGED <<ledgerVars, ops, partnerVars, syncVars, withdrawals, tokens, lastRequest>>

\* GET / of the clients list
GetClients ==
    /\ lastAgg = NoAgg
    /\ \E ib \in Partners :
         lastAgg' = aggOf("clients", ib, clientsStats(ledger, ib))
    /\ UNCHANGED <<ledgerVars, ops, partnerVars, syncVars, withdrawals, tokens, lastRequest>>

NextAgg ==
    \/ UpsertTradesCall
    \/ GetWithdrawalSummary \/ GetDashboard \/ GetCommission \/ GetCommissionAnalytics
    \/ GetQuickReports \/ GetClients

SpecAgg == Init /\ [][NextAgg]_vars

\* C7 (as claimed): a closed trade with profit 0 is stored by ingestion, and no
\* aggregation (withdrawal summary, dashboard, commission totals, commission
\* analytics) adds a trade with profit 0 to its sums.
C7_ZeroProfitExcluded ==
    /\ \A i \in 1..Len(lastBatch.trades) :
          (admitted(lastBatch.trades[i]) /\ lastBatch.trades[i].Profit = 0)
              => i \in lastBatch.ran
    /\ lastAgg.path # "none" => \A c \in lastAgg.counted : c.profit # 0

C11_UnmatchedExcluded ==
    lastAgg.path # "none" =>
        { c.trade : c \in lastAgg.counted } \subseteq { m.trade : m \in lastAgg.matched }

\* C12 (as claimed): no trade of the partner's own user is among the trades a
\* downline aggregate (the dashboard balance, the clients list) adds up, also
\* when the partner's user is attached to the partner's own referral code.
C12_DownlineExclusion ==
    lastAgg.path \in {"dashboard", "dashboard/no-own-id", "clients"} =>
        \A c \in lastAgg.counted : \A r \in ledger :
            r.id = c.trade => r.user_id # partnerUser(lastAgg.ib)

\* C22: no aggregation adds a trade whose group contains "demo" (in any
\* letter case) to its sums.
C22_DemoExcluded ==
    /\ lastAgg.path = "commission-analytics" =>
          \A c \in lastAgg.counted : ~likeDemo(profileGroup(c.trade[1]))
    /\ lastAgg.path \notin {"none", "commission-analytics"} =>
          \A c \in lastAgg.counted : \A r \in ledger :
              (r.id = c.trade /\ r.group_id # NULL) => ~likeDemo(r.group_id)

----------------------------------------------------------------------------
(* Group keys over raw group strings: what the matchers derive and find *)

MaxGroupLen == 3

\* the characters raw group strings are built from: a lower-case and an
\* upper-case letter, both separators and a blank
GroupChars == {"a", "B", "/", "\\", " "}

\* the strings over GroupChars of length n or less
RECURSIVE StringsUpTo(_)
StringsUpTo(n) ==
    IF n = 0 THEN {<<>>}
    ELSE StringsUpTo(n - 1)
           \cup { Append(s, c) : s \in StringsUpTo(n - 1), c \in GroupChars }

GroupStrings == StringsUpTo(MaxGroupLen)

G_BbookStandardUsd ==
    <<"B","B","O","O","K","\\","S","T","A","N","D","A","R","D","\\","U","S","D">>
G_BbookStandardUsdFwd ==
    <<"B","b","o","o","k","/","S","t","a","n","d","a","r","d","/","U","S","D">>
G_standard == <<"s","t","a","n","d","a","r","d">>
G_usd == <<"U","S","D">>

\* groups of trades and of rules that are looked up against each other
TradeGroups == {G_BbookStandardUsd, G_BbookStandardUsdFwd, G_realStd, G_Pro}
RuleGroups == {G_standard, G_Std, G_usd}

\* makeKeys applied to a raw group string, and norm / normalize beside it
DeriveKeys ==
    /\ lastAgg = NoAgg
    /\ \E g \in GroupStrings :
         lastAgg' = [path |-> "makeKeys", raw |-> g,
                     keys |-> Range(makeKeys(g)), short |-> norm(g)]
    /\ UNCHANGED <<ledgerVars, ops, partnerVars, syncVars, withdrawals, tokens, lastRequest>>

\* the second copy of getSummary: approvedMap[normalize(group)] must be truthy
summaryNormalizedHit(rules, ib, g) ==
    \E a \in rulesOf(rules, ib) :
        /\ normalize(a.group_id) # <<>>
        /\ normalize(a.group_id) = normalize(g)
        /\ a.spread_share_percentage # 0

\* Whether each path finds the rule of a partner whose only rule is for group
\* rg (15 a lot, 20 percent) when it meets a trade of group tg.
groupLookups(tg, rg) ==
    LET rules == { Assignment(1, rg, NULL, 15, 20) }
        ib == [id |-> 1, usd_per_lot |-> 0, spread_percentage_per_lot |-> 0]
    IN [summary |-> firstIn(makeKeys(tg), summaryKeys(rules, 1)) # <<>>,
        summaryNormalized |-> summaryNormalizedHit(rules, 1, tg),
        dashboard |-> routeKeyFor(rules, 1, tg) # <<>>,
        quickReports |-> \E a \in rules : quickKeyFor(tg) \in quickKeysOf(a),
        analytics |-> firstIn(makeKeys(tg), UNION { analyticsKeysOf(a) : a \in rules }) # <<>>,
        upsertTrades |-> usdPerLotOf(buildCommissionMap(rules, ib), tg) = 15,
        calculateIBCommissions |-> \E a \in rules : calcMatches([group_id |-> tg], a)]

\* a trade's group looked up against a partner's rule on every path
MatchGroup ==
    /\ lastAgg = NoAgg
    /\ \E tg \in TradeGroups, rg \in RuleGroups :
         lastAgg' = [path |-> "match", trade |-> tg, rule |-> rg,
                     keys |-> Range(makeKeys(tg)), hits |-> groupLookups(tg, rg)]
    /\ UNCHANGED <<ledgerVars, ops, partnerVars, syncVars, withdrawals, tokens, lastRequest>>

NextKeys == DeriveKeys \/ MatchGroup

SpecKeys == Init /\ [][NextKeys]_vars

plainGroup(g) ==
    /\ g # <<>> /\ trim(g) = g
    /\ g[Len(g)] \notin {"/", "\\"}

C15_BbookRuleMatches ==
    (lastAgg.path = "match" /\ lastAgg.trade = G_BbookStandardUsd
        /\ lastAgg.rule = G_standard) =>
        /\ G_standard \in lastAgg.keys
        /\ \A f \in DOMAIN lastAgg.hits : lastAgg.hits[f]

\* C28: for a trade group and a partner rule, every path that looks the
\* trade's group up (ingestion rate lookup, stored-commission recomputation,
\* withdrawal summary, dashboard, quick reports, analytics) reaches the same
\* match / no-match decision.
C28_SameDecisionOnEveryPath ==
    lastAgg.path = "match" =>
        \A f, h \in DOMAIN lastAgg.hits : lastAgg.hits[f] = lastAgg.hits[h]

----------------------------------------------------------------------------
(* Partner status and authentication *)

STATUS_VALUES == {"pending", "approved", "rejected", "banned"}

NoToken == [id |-> 0]

\* IBGroupAssignment.replaceAssignments: the partner's rules become the given ones
replaceAssignments(rules, id, list) ==
    (rules \ rulesOf(rules, id))
        \cup { Assignment(id, list[i].groupId, list[i].groupName, list[i].usdPerLot,
                          list[i].spreadSharePercentage) : i \in 1..Len(list) }

\* IBGroupAssignment.clearAssignments
clearAssignments(rules, id) == rules \ rulesOf(rules, id)

\* IBRequest.updateStatus; a NULL rate is kept as 0, which is how it is read
updateStatus(requests, id, status, usdPerLot, spreadPercentagePerLot) ==
    [requests EXCEPT ![id] = [status |-> status, usd_per_lot |-> usdPerLot,
                              spread_percentage_per_lot |-> spreadPercentagePerLot]]

Group(gid, gname, usd, pct) ==
    [groupId |-> gid, groupName |-> gname, usdPerLot |-> usd, spreadSharePercentage |-> pct]

\* request bodies of PUT /:id/status: a multi-group approval, one with a
\* percentage out of range, one at the ends of the ranges, one whose second
\* group has a negative rate, a single-group approval, one with a percentage
\* out of range, and the other statuses
StatusBodies ==
    { [status |-> "approved", groups |-> <<Group(G_Std, G_Std, 15, 20)>>],
      [status |-> "approved", groups |-> <<Group(G_Std, G_Std, 15, 150)>>],
      [status |-> "approved", groups |-> <<Group(G_Pro, G_Pro, 0, 100)>>],
      [status |-> "approved",
       groups |-> <<Group(G_Std, G_Std, 15, 20), Group(G_Pro, G_Pro, -1, 0)>>],
      [status |-> "approved", groups |-> <<>>, groupId |-> G_Std,
       usdPerLot |-> 15, spreadPercentagePerLot |-> 20],
      [status |-> "approved", groups |-> <<>>, groupId |-> G_Std,
       usdPerLot |-> 15, spreadPercentagePerLot |-> 101],
      [status |-> "rejected", groups |-> <<>>],
      [status |-> "banned", groups |-> <<>>],
      [status |-> "pending", groups |-> <<>>] }

\* a variant that sets no upper limit on the percentage
invalidCommission_noUpperLimit(usd, pct) == usd < 0 \/ pct < 0

\* usdValue < 0 || spreadValue < 0 || spreadValue > 100
invalidCommission(usd, pct) == usd < 0 \/ pct < 0 \/ pct > 100

\* a variant that leaves the partner's rules in place
setOtherStatus_keepRules(requests, rules, id, status) ==
    [requests |-> updateStatus(requests, id, status, 0, 0),
     rules |-> rules,
     code |-> 200]

\* the branch for a status other than approved: updateStatus with null rates,
\* then clearAssignments
setOtherStatus(requests, rules, id, status) ==
    [requests |-> updateStatus(requests, id, status, 0, 0),
     rules |-> clearAssignments(rules, id),
     code |-> 200]

\* PUT /:id/status: the partner and rule tables it leaves, and its response
putStatus(requests, rules, id, body) ==
    IF body.status \notin STATUS_VALUES
    THEN [requests |-> requests, rules |-> rules, code |-> 400]
    ELSE IF body.status = "approved" /\ body.groups # <<>>
    THEN IF \E i \in 1..Len(body.groups) :
                invalidCommission(body.groups[i].usdPerLot,
                                  body.groups[i].spreadSharePercentage)
         THEN [requests |-> requests, rules |-> rules, code |-> 400]
         ELSE [requests |-> updateStatus(requests, id, "approved",
                                         body.groups[1].usdPerLot,
                                         body.groups[1].spreadSharePercentage),
               rules |-> replaceAssignments(rules, id, body.groups),
               code |-> 200]
    ELSE IF body.status = "approved"
    THEN IF invalidCommission(body.usdPerLot, body.spreadPercentagePerLot)
         THEN [requests |-> requests, rules |-> rules, code |-> 400]
         ELSE [requests |-> updateStatus(requests, id, "approved", body.usdPerLot,
                                         body.spreadPercentagePerLot),
               rules |-> replaceAssignments(rules, id,
                            <<Group(body.groupId, NULL, body.usdPerLot,
                                    body.spreadPercentagePerLot)>>),
               code |-> 200]
    ELSE setOtherStatus(requests, rules, id, body.status)

\* the admin sets a partner's status
PutStatus ==
    /\ \E id \in DOMAIN ibRequests, body \in StatusBodies :
         LET out == putStatus(ibRequests, assignments, id, body)
         IN /\ ibRequests' = out.requests
            /\ assignments' = out.rules
            /\ lastRequest' = [route |-> "/:id/status", ib |-> id, code |-> out.code]
    /\ UNCHANGED <<ledgerVars, ops, referralCodes, syncVars, withdrawals, tokens, lastAgg>>

\* the id the next inserted partner row gets
ApplicantId == 3

\* IBRequest.create: the row is inserted with the column default 'pending'
createRequest(requests, id) ==
    requests @@ (id :> [status |-> "pending", usd_per_lot |-> 0,
                        spread_percentage_per_lot |-> 0])

\* a variant that lets a banned partner apply again
applyPartner_fromBanned(requests, id, passwordMatches) ==
    IF ~passwordMatches THEN [requests |-> requests, code |-> 401]
    ELSE IF id \notin DOMAIN requests
    THEN [requests |-> createRequest(requests, id), code |-> 201]
    ELSE IF requests[id].status \in {"approved", "pending"}
    THEN [requests |-> requests, code |-> 400]
    ELSE [requests |-> [requests EXCEPT ![id] = [status |-> "pending", usd_per_lot |-> 0,
                                                 spread_percentage_per_lot |-> 0]],
          code |-> 200]

\* POST /apply-partner for the email of partner id: IBRequest.create when the
\* email has no partner row, IBRequest.updateApplication when its row is
\* rejected, and the response
applyPartner(requests, id, passwordMatches) ==
    IF ~passwordMatches THEN [requests |-> requests, code |-> 401]
    ELSE IF id \notin DOMAIN requests
    THEN [requests |-> createRequest(requests, id), code |-> 201]
    ELSE IF requests[id].status \in {"approved", "pending"}
    THEN [requests |-> requests, code |-> 400]
    ELSE IF requests[id].status = "banned"
    THEN [requests |-> requests, code |-> 403]
    ELSE [requests |-> [requests EXCEPT ![id] = [status |-> "pending", usd_per_lot |-> 0,
                                                 spread_percentage_per_lot |-> 0]],
          code |-> 200]

ApplyPartner ==
    /\ \E id \in Partners \cup {ApplicantId}, passwordMatches \in BOOLEAN :
         LET out == applyPartner(ibRequests, id, passwordMatches)
         IN /\ ibRequests' = out.requests
            /\ lastRequest' = [route |-> "/apply-partner", ib |-> id, code |-> out.code]
    /\ UNCHANGED <<ledgerVars, ops, assignments, referralCodes, syncVars, withdrawals,
                   tokens, lastAgg>>

\* the status code of POST /login for a partner row found by email
login(request, passwordValid) ==
    IF ~passwordValid THEN 401
    ELSE IF request.status = "pending" THEN 403
    ELSE IF request.status = "rejected" THEN 403
    ELSE IF request.status = "banned" THEN 403
    ELSE IF request.status # "approved" THEN 403
    ELSE 200

\* POST /login: a token is generated with the 200 response
Login ==
    /\ \E id \in DOMAIN ibRequests, passwordValid \in BOOLEAN :
         LET code == login(ibRequests[id], passwordValid)
         IN /\ tokens' = IF code = 200 THEN tokens \cup {[id |-> id]} ELSE tokens
            /\ lastRequest' = [route |-> "/login", ib |-> id, code |-> code,
                               status |-> ibRequests[id].status]
    /\ UNCHANGED <<ledgerVars, ops, partnerVars, syncVars, withdrawals, lastAgg>>

\* a middleware that trusts the token it verified
authenticateToken_trustToken(token, requests) ==
    IF token = NoToken THEN 401
    ELSE 200

\* authenticateToken: 401, or 200 for next()
authenticateToken(token, requests) ==
    IF token = NoToken THEN 401
    ELSE IF requests[token.id].status # "approved" THEN 401
    ELSE 200

\* a request to a route behind authenticateToken (GET /profile)
ProtectedRequest ==
    /\ \E token \in tokens \cup {NoToken} :
         lastRequest' = [route |-> "/profile", ib |-> token.id,
                         code |-> authenticateToken(token, ibRequests),
                         status |-> IF token = NoToken THEN "none"
                                    ELSE ibRequests[token.id].status]
    /\ UNCHANGED <<ledgerVars, ops, partnerVars, syncVars, withdrawals, tokens, lastAgg>>

NextAuth == PutStatus \/ ApplyPartner \/ Login \/ ProtectedRequest

SpecAuth == Init /\ [][NextAuth]_vars

\* C3: a login answers 200 (and issues a token) only to a partner whose status
\* is approved at that time, and a token-protected request made while the
\* token's partner is pending, rejected or banned is answered 401, also when
\* the token was issued while the partner was approved.
C3_OnlyApprovedAuthenticate ==
    /\ (lastRequest.route = "/login" /\ lastRequest.code = 200)
          => lastRequest.status = "approved"
    /\ (lastRequest.route = "/profile" /\ lastRequest.status \in {"pending", "rejected", "banned"})
          => lastRequest.code = 401

\* partner 1 holds a token, was banned afterwards, and its request got 401
C3_Witness ==
    /\ [id |-> 1] \in tokens
    /\ ibRequests[1].status = "banned"
    /\ lastRequest.route = "/profile" /\ lastRequest.ib = 1 /\ lastRequest.code = 401

\* C16: a partner row is created with status pending; a status becomes
\* approved, rejected or banned only by an accepted admin status action on that
\* partner; an application for an existing partner is accepted only when the
\* status is rejected and then sets it to pending, and an application from
\* pending, approved or banned is refused and leaves the status unchanged.
C16_StatusLifecycle ==
    [][ /\ \A id \in (DOMAIN ibRequests') \ (DOMAIN ibRequests) :
              /\ ibRequests'[id].status = "pending"
              /\ lastRequest'.route = "/apply-partner" /\ lastRequest'.ib = id
        /\ \A id \in DOMAIN ibRequests :
              LET old == ibRequests[id].status
                  new == ibRequests'[id].status
                  admin_ == /\ lastRequest'.route = "/:id/status"
                            /\ lastRequest'.ib = id /\ lastRequest'.code = 200
                  applied == lastRequest'.route = "/apply-partner" /\ lastRequest'.ib = id
              IN /\ (new # old /\ new \in {"approved", "rejected", "banned"}) => admin_
                 /\ (new # old /\ new = "pending") =>
                        (admin_ \/ (applied /\ old = "rejected"))
                 /\ applied =>
                        /\ lastRequest'.code = 200 => (old = "rejected" /\ new = "pending")
                        /\ old \in {"pending", "approved", "banned"} =>
                              (new = old /\ lastRequest'.code # 200)
      ]_vars

\* a new application was stored as pending, and partner 1, rejected by the
\* admin, applied again and is pending
C16_Witness ==
    /\ ApplicantId \in DOMAIN ibRequests
    /\ lastRequest.route = "/apply-partner" /\ lastRequest.ib = 1 /\ lastRequest.code = 200
    /\ ibRequests[1].status = "pending"
    /\ assignments = {}

C19_RuleRanges ==
    \A a \in assignments :
        /\ 0 <= a.spread_share_percentage /\ a.spread_share_percentage <= 100
        /\ a.usd_per_lot >= 0

\* a rule at the ends of both ranges is stored for partner 2, and an approval
\* of partner 2 with values out of range has then been refused
C19_Witness ==
    /\ \E a \in rulesOf(assignments, 2) :
          a.usd_per_lot = 0 /\ a.spread_share_percentage = 100
    /\ lastRequest.route = "/:id/status" /\ lastRequest.ib = 2 /\ lastRequest.code = 400

----------------------------------------------------------------------------
(* The status action beside the scheduler.  PUT /:id/status awaits           *)
(* IBRequest.updateStatus and then the assignment call; timers and other     *)
(* requests run between the two.                                             *)

\* the status action between its two writes: the rules it is about to store
\* for the partner, and the partner row as it was before updateStatus
StatusInFlight(id, rules, before) ==
    [pc |-> "assignments", route |-> "/:id/status", ibRequestId |-> id,
     userId |-> "", accounts |-> <<>>, rules |-> rules, before |-> before]

\* PUT /:id/status up to and including IBRequest.updateStatus
PutStatusUpdate ==
    /\ admin.pc = "idle"
    /\ \E id \in DOMAIN ibRequests, body \in StatusBodies :
         LET out == putStatus(ibRequests, assignments, id, body)
         IN IF out.code # 200
            THEN /\ lastRequest' = [route |-> "/:id/status", ib |-> id, code |-> out.code]
                 /\ UNCHANGED <<ibRequests, admin>>
            ELSE /\ ibRequests' = out.requests
                 /\ admin' = StatusInFlight(id, rulesOf(out.rules, id), ibRequests[id])
                 /\ UNCHANGED lastRequest
    /\ UNCHANGED <<ledgerVars, ops, assignments, referralCodes, sched, syncLog,
                   withdrawals, tokens, lastAgg>>

\* the rest of PUT /:id/status: replaceAssignments or clearAssignments, and
\* the response
PutStatusAssignments ==
    /\ admin.pc = "assignments"
    /\ assignments' = clearAssignments(assignments, admin.ibRequestId) \cup admin.rules
    /\ lastRequest' = [route |-> "/:id/status", ib |-> admin.ibRequestId, code |-> 200]
    /\ admin' = AdminIdle
    /\ UNCHANGED <<ledgerVars, ops, ibRequests, referralCodes, sched, syncLog,
                   withdrawals, tokens, lastAgg>>

NextApproval ==
    \/ PutStatusUpdate \/ PutStatusAssignments
    \/ TimerTick \/ SchedPartner \/ SchedFetchFails

SpecApproval == Init /\ [][NextApproval]_vars

\* the rates of a partner row
ratesOf(row) == <<row.usd_per_lot, row.spread_percentage_per_lot>>

\* C17 (as claimed): when the scheduler reads a partner's rules while a status
\* action on that partner is between its two writes, the partner row the pass
\* read and the rule set it reads are together either those from before the
\* action or those the action leaves.
C17_AtomicRuleReplacement ==
    [][ (sched.pc = "partner" /\ sched'.pc = "account"
           /\ admin.pc = "assignments" /\ admin.ibRequestId = sched'.ib) =>
          LET seen == <<ratesOf(Head(sched.ibUsers)), rulesOf(assignments, sched'.ib)>>
          IN seen \in { <<ratesOf(admin.before), rulesOf(assignments, sched'.ib)>>,
                        <<ratesOf(ibRequests[sched'.ib]), admin.rules>> }
      ]_vars

----------------------------------------------------------------------------
(* Withdrawals *)

MaxWithdrawals == 2     \* rows of ib_withdrawal_requests in one behaviour

\* the amounts (dollars) a partner asks for
Amounts == {0, 500}

\* IBWithdrawal.create: the row gets the next serial id and status 'pending'
create(wd, ibRequestId, amount) ==
    wd \cup { [id |-> Cardinality(wd) + 1, ib_request_id |-> ibRequestId,
               amount |-> amount, status |-> "pending"] }

\* POST /withdrawals behind authenticateToken: the table it leaves, its response
postWithdrawals(wd, requests, token, amount, hasPaymentMethod) ==
    IF authenticateToken(token, requests) # 200 THEN [rows |-> wd, code |-> 401]
    ELSE IF amount <= 0 THEN [rows |-> wd, code |-> 400]
    ELSE IF ~hasPaymentMethod THEN [rows |-> wd, code |-> 400]
    ELSE [rows |-> create(wd, token.id, amount), code |-> 201]

PostWithdrawals ==
    /\ Cardinality(withdrawals) < MaxWithdrawals
    /\ \E token \in tokens, amount \in Amounts, hasPaymentMethod \in BOOLEAN :
         LET out == postWithdrawals(withdrawals, ibRequests, token, amount, hasPaymentMethod)
         IN /\ withdrawals' = out.rows
            /\ lastRequest' =
                  [route |-> "/withdrawals", ib |-> token.id, code |-> out.code,
                   amount |-> amount,
                   available |-> getSummary(ledger, assignments, withdrawals,
                                            token.id, FALSE).available,
                   created |-> out.rows # withdrawals]
    /\ UNCHANGED <<ledgerVars, ops, partnerVars, syncVars, tokens, lastAgg>>

NextWithdraw ==
    \/ TimerTick \/ SchedPartner \/ SchedUpsert \/ SchedFetchFails \/ SchedCalc
    \/ Login \/ PostWithdrawals

SpecWithdraw == Init /\ [][NextWithdraw]_vars

\* C2 (as claimed): a withdrawal request for more than the partner's available
\* balance at the time it is processed is not answered 201 and leaves no row.
C2_NoOverdraw ==
    (lastRequest.route = "/withdrawals"
        /\ 100000 * lastRequest.amount > lastRequest.available)
      => (lastRequest.code # 201 /\ ~lastRequest.created)

----------------------------------------------------------------------------
(* The withdrawal summary over a ledger and a withdrawal table that both move *)

\* Recording a payout: a pending request becomes paid. Payouts are executed
\* outside this server; only their record reaches ib_withdrawal_requests.
PayoutRecorded ==
    /\ \E w \in withdrawals :
         /\ w.status = "pending"
         /\ withdrawals' = (withdrawals \ {w}) \cup {[w EXCEPT !.status = "paid"]}
    /\ UNCHANGED <<ledgerVars, ops, partnerVars, syncVars, tokens, lastRequest, lastAgg>>

\* the ingestion calls made before the partners turn to their withdrawals
SummaryIngestions == 1

\* Ingestion, logins and withdrawal requests touch different tables, so the
\* behaviours are taken in one order: ingestion, then logins, then requests
\* and payouts, then the summary that is observed.
NextSummary ==
    \/ (ops < SummaryIngestions /\ tokens = {} /\ UpsertTradesCall)
    \/ (lastAgg = NoAgg /\ withdrawals = {} /\ Login)
    \/ (lastAgg = NoAgg /\ PostWithdrawals)
    \/ (lastAgg = NoAgg /\ PayoutRecorded)
    \/ GetWithdrawalSummary

SpecSummary == Init /\ [][NextSummary]_vars

\* the partner's rules a trade's group matches, by any derived key
rulesApproving(ib, r) ==
    { a \in rulesOf(assignments, ib) :
        Range(makeKeys(r.group_id)) \cap Range(makeKeys(a.group_id)) # {} }

\* the commission aggregate of a partner restricted to approved groups, over
\* the closed trades with a profit of the partner's own accounts (of all
\* accounts when the partner has none), in 1/100000 dollar
approvedAggregate(ib) ==
    LET own == Range(userAccounts(partnerUser(ib)))
        rows == { r \in ledger :
                    /\ r.ib_request_id = ib /\ r.close_price # 0 /\ r.profit # 0
                    /\ own # {} => r.account_id \in own
                    /\ rulesApproving(ib, r) # {} }
    IN SumOver(rows, [r \in rows |->
           100 * r.ib_commission
             + r.volume_lots * (CHOOSE a \in rulesApproving(ib, r) : TRUE).spread_share_percentage])

\* C13 (as claimed): a withdrawal summary returns
\* available = max(totalEarned - totalPaid - totalPending, 0), with totalEarned
\* the commission aggregate restricted to approved groups and totalPaid and
\* totalPending the sums of the partner's withdrawal rows that are paid
\* (or completed) and pending.
C13_AvailableBalance ==
    lastAgg.path \in {"getSummary", "getSummary/catch"} =>
        LET mine == { w \in withdrawals : w.ib_request_id = lastAgg.ib }
            paid == { w \in mine : w.status \in {"paid", "completed"} }
            pend == { w \in mine : w.status = "pending" }
        IN /\ lastAgg.totalPaid = 100000 * SumOver(paid, [w \in paid |-> w.amount])
           /\ lastAgg.pending = 100000 * SumOver(pend, [w \in pend |-> w.amount])
           /\ lastAgg.totalEarned = approvedAggregate(lastAgg.ib)
           /\ lastAgg.available =
                 IF lastAgg.totalEarned - lastAgg.totalPaid - lastAgg.pending > 0
                 THEN lastAgg.totalEarned - lastAgg.totalPaid - lastAgg.pending
                 ELSE 0

----------------------------------------------------------------------------
(* Claims about upsertTrades *)

rowsOf(o) == {r \in ledger : r.order_id = o}

\* C1: however often an order id is ingested, the ledger holds exactly one row
\* for it, and that row's close price and profit are those of the last item
\* ingested for it (first profit 10, re-sync 12: one row, profit 12).
C1_Idempotent ==
    /\ \A r1, r2 \in ledger : r1.order_id = r2.order_id => r1 = r2
    /\ \A o \in DOMAIN lastRaw :
          lastRaw[o].n > 0 =>
             /\ Cardinality(rowsOf(o)) = 1
             /\ \A r \in rowsOf(o) : /\ r.profit = lastRaw[o].item.Profit
                                     /\ r.close_price = lastRaw[o].item.ClosePrice

\* order 1 was ingested with profit 10 and again, in a later call, with profit 12
C1_Witness ==
    /\ ops = 2
    /\ lastRaw["1"].n >= 2
    /\ lastRaw["1"].item = I_p12
    /\ lastBatch.trades = <<I_p12>>
    /\ \E r \in ledger : r.order_id = "1" /\ r.profit = 12000

\* C5 (as claimed): an ingestion for one account leaves every row of every
\* other account as it was, and stores each admitted trade under its own account.
C5_NoCrossAccountWrite ==
    [][ /\ \A r \in ledger : r.account_id # lastBatch'.accountId => r \in ledger'
        /\ \A i \in lastBatch'.ran :
              \E r \in ledger' : /\ r.order_id = lastBatch'.trades[i].OrderId
                                 /\ r.account_id = lastBatch'.accountId ]_vars

\* the four conditions of the eligibility filter as the claim lists them
eligibleAsClaimed(trade) ==
    /\ trim(toLowerCase(trade.OrderType)) \in {S_buy, S_sell}
    /\ trade.ClosePrice # 0
    /\ trade.OpenPrice # 0
    /\ trade.Volume # 0

\* C6 (as claimed): an item given to ingestion is stored iff its order type is
\* buy or sell and its close price, open price and volume are non-zero.
C6_EligibilityFilter ==
    \A i \in 1..Len(lastBatch.trades) :
        (i \in lastBatch.ran) <=> eligibleAsClaimed(lastBatch.trades[i])

\* C9 (as claimed): the stored volume_lots of an ingested trade is v * 1000
\* when the raw volume v is below 0.1 and v otherwise.
C9_VolumeNormalization ==
    \A o \in DOMAIN lastRaw :
        lastRaw[o].n > 0 =>
            \A r \in rowsOf(o) :
                r.volume_lots = IF lastRaw[o].item.Volume < 100
                                THEN lastRaw[o].item.Volume * 1000
                                ELSE lastRaw[o].item.Volume

\* the volume_lots the engine of the most recent call stores for a raw volume
storedLots(engine, volume) == IF engine = "legacy" THEN volume ELSE volumeLotsOf(volume)

----------------------------------------------------------------------------
(* The sync paths beside the admin's status action: one status action in a  *)
(* behaviour, made before the first ingestion call.                         *)

NextAttribution ==
    \/ (lastRequest = NoRequest /\ ops = 0 /\ PutStatus)
    \/ TimerTick \/ SchedPartner \/ SchedUpsert \/ SchedFetchFails \/ SchedCalc
    \/ AdminSyncAccount \/ AdminSyncUser \/ AdminUpsert \/ AdminCalc

SpecAttribution == Init /\ [][NextAttribution]_vars

\* C21: whichever path makes it (scheduler pass, admin account sync, admin
\* partner sync), an upsertTrades call that stores rows for a partner is made
\* only while that partner's status is approved.
C21_OnlyApprovedAccrue ==
    [][ /\ (sched.pc = "account" /\ sched'.pc = "calc" /\ lastBatch'.ran # {}) =>
              ibRequests[sched.ib].status = "approved"
        /\ (admin.pc = "account" /\ admin'.pc = "calc" /\ lastBatch'.ran # {}) =>
              ibRequests[admin.ibRequestId].status = "approved" ]_vars

----------------------------------------------------------------------------
(* Failures inside a pass and inside POST /sync-user/:ibRequestId *)

\* a variant in which the error ends the whole pass
afterAccountError_abortsPass(sc) == SchedIdle

\* the catch block of the per-account try: the error is logged and the loop
\* goes on with the next account
afterAccountError(sc) == schedAdvance(sc)

\* the trade-history call of the pass throws, answers not-ok or sends a body
\* that is not JSON
SchedAccountFails ==
    /\ sched.pc = "account"
    /\ sched' = afterAccountError(sched)
    /\ UNCHANGED <<ledgerVars, ops, partnerVars, admin, syncLog, portalVars>>

\* the UPDATE of calculateIBCommissions fails: it catches the error itself and
\* returns 0, and the loop goes on
SchedCalcFails ==
    /\ sched.pc = "calc"
    /\ sched' = schedAdvance(sched)
    /\ UNCHANGED <<ledgerVars, ops, partnerVars, admin, syncLog, portalVars>>

\* the "User" or rules query of a partner throws, or finds no user: the
\* per-partner catch (or `continue`) goes on with the next partner
SchedPartnerFails ==
    /\ sched.pc = "partner"
    /\ sched' = IF Len(sched.ibUsers) > 1
                THEN [sched EXCEPT !.ibUsers = Tail(@)]
                ELSE SchedIdle
    /\ UNCHANGED <<ledgerVars, ops, partnerVars, admin, syncLog, portalVars>>

\* where POST /sync-user goes when the account at the head of its list is done
adminAdvance(ad) ==
    IF Len(ad.accounts) > 1
    THEN [ad EXCEPT !.pc = "account", !.accounts = Tail(@)]
    ELSE AdminIdle

\* the trade-history call of an admin sync throws or answers not-ok: the
\* per-account catch of /sync-user records the error and goes on; /sync,
\* which has one account, answers 500
AdminAccountFails ==
    /\ admin.pc = "account"
    /\ admin' = adminAdvance(admin)
    /\ UNCHANGED <<ledgerVars, ops, partnerVars, sched, syncLog, portalVars>>

NextTick ==
    \/ TimerTick \/ SchedPartner \/ SchedUpsert \/ SchedCalc
    \/ SchedAccountFails \/ SchedCalcFails \/ SchedPartnerFails
    \/ AdminSyncUser \/ AdminUpsert \/ AdminCalc \/ AdminAccountFails

SpecTick == Init /\ [][NextTick]_vars

\* C23: no step of a pass or of an admin partner sync, a failed broker call or
\* a failed write included, drops work that is still to do: the accounts left
\* lose at most the account just attempted, the partners left stay as they
\* are while a partner's accounts are gone through, and the pass or request
\* ends only when no account and no partner is left.
C23_FailureIsolation ==
    [][ /\ sched.pc \in {"account", "calc"} =>
              /\ sched'.pc # "idle" => sched'.ibUsers = sched.ibUsers
              /\ sched'.pc \in {"account", "calc"} =>
                    sched'.accounts \in {sched.accounts, Tail(sched.accounts)}
              /\ sched'.pc = "partner" => Len(sched.accounts) = 1
              /\ sched'.pc = "idle" => Len(sched.accounts) = 1 /\ sched.ibUsers = <<>>
        /\ admin.pc \in {"account", "calc"} =>
              /\ admin'.pc \in {"account", "calc"} =>
                    admin'.accounts \in {admin.accounts, Tail(admin.accounts)}
              /\ admin'.pc = "idle" => Len(admin.accounts) = 1 ]_vars

\* the pass is at partner 1's second account without any call of upsertTrades
\* having been made (the sync of the first account failed), and another
\* partner is still to come
C23_Witness ==
    /\ sched.pc = "account" /\ sched.ib = 1 /\ sched.accounts = <<"A3">>
    /\ sched.ibUsers # <<>>
    /\ lastBatch = NoBatch

----------------------------------------------------------------------------
(* The timer and the passes it starts.  setInterval calls autoSyncTrades     *)
(* every five minutes whatever earlier calls are doing, so here `sched` is   *)
(* the sequence of the passes started so far, each with its own position.   *)

MaxPasses == 2     \* calls of autoSyncTrades by the timer in one behaviour

InitTimer ==
    /\ ledger = {}
    /\ lastBatch = NoBatch
    /\ lastRaw = [o \in OrderIdsUp \cup {""} |-> NeverIngested]
    /\ ops = 0
    /\ ibRequests = InitialRequests
    /\ assignments = InitialAssignments
    /\ referralCodes = NoReferralCodes
    /\ sched = <<>>
    /\ admin = AdminIdle
    /\ syncLog = [a \in Accounts |-> NeverSynced]
    /\ withdrawals = {}
    /\ tokens = {}
    /\ lastRequest = NoRequest
    /\ lastAgg = NoAgg

\* the process is running: no rejection of a pass went unhandled
alive == \A i \in 1..Len(sched) : sched[i].pc # "crashed"

\* a pass that has not returned
running(p) == p.pc \in {"partner", "account", "calc", "caught"}

\* a variant without the outer try/catch: the rejection is unhandled
onPassError_unhandled(p) == [p EXCEPT !.pc = "crashed"]

\* the outer catch of autoSyncTrades: the error is logged and the call returns
onPassError(p) == [p EXCEPT !.pc = "done"]

\* the position of a pass after the account at the head of its list
passAdvance(p) ==
    LET n == schedAdvance(p) IN IF n.pc = "idle" THEN [p EXCEPT !.pc = "done"] ELSE n

\* the timer fires and the query for the approved partners answers
TimerFires ==
    /\ alive /\ Len(sched) < MaxPasses
    /\ \E order \in Orderings({ ib \in Partners : ibRequests[ib].status = "approved" }) :
         sched' = Append(sched,
                    [SchedIdle EXCEPT
                       !.pc = IF order = <<>> THEN "done" ELSE "partner",
                       !.ibUsers = [i \in 1..Len(order) |->
                                      [id |-> order[i],
                                       usd_per_lot |-> ibRequests[order[i]].usd_per_lot,
                                       spread_percentage_per_lot |->
                                           ibRequests[order[i]].spread_percentage_per_lot]]])
    /\ UNCHANGED <<ledgerVars, ops, partnerVars, admin, syncLog, portalVars>>

\* the timer fires and the import or the query for the approved partners
\* throws: the pass is in the outer catch before any partner is processed
TimerFiresQueryFails ==
    /\ alive /\ Len(sched) < MaxPasses
    /\ sched' = Append(sched, [SchedIdle EXCEPT !.pc = "caught"])
    /\ UNCHANGED <<ledgerVars, ops, partnerVars, admin, syncLog, portalVars>>

PassCaught(i) ==
    /\ i \in DOMAIN sched /\ sched[i].pc = "caught"
    /\ sched' = [sched EXCEPT ![i] = onPassError(@)]
    /\ UNCHANGED <<ledgerVars, ops, partnerVars, admin, syncLog, portalVars>>

PassPartner(i) ==
    /\ i \in DOMAIN sched /\ sched[i].pc = "partner"
    /\ LET ib == Head(sched[i].ibUsers)
       IN sched' = [sched EXCEPT ![i] =
                      [@ EXCEPT !.pc = "account",
                                !.ib = ib.id,
                                !.ibUsers = Tail(@),
                                !.userId = partnerUser(ib.id),
                                !.commissionMap = buildCommissionMap(assignments, ib),
                                !.accounts = userAccounts(partnerUser(ib.id))]]
    /\ UNCHANGED <<ledgerVars, ops, partnerVars, admin, syncLog, portalVars>>

\* the broker answers the trade-history call of pass i with a page of trades
PassUpsert(i) ==
    /\ i \in DOMAIN sched /\ sched[i].pc = "account"
    /\ \E groupId \in ResolvedGroups(Head(sched[i].accounts)) :
         LET a == Head(sched[i].accounts)
             out == upsertTrades(ledger, upstreamTrades(a), a, sched[i].userId,
                                 sched[i].ib, sched[i].commissionMap, groupId)
         IN /\ ledger' = out.db
            /\ lastBatch' = [engine |-> "current", accountId |-> a,
                             trades |-> upstreamTrades(a), ran |-> out.ran, threw |-> {},
                             groupId |-> groupId,
                             usdPerLot |-> usdPerLotOf(sched[i].commissionMap, groupId)]
            /\ lastRaw' = lastRawAfter(lastRaw, upstreamTrades(a), out.ran, 1, ops + 1)
            /\ syncLog' = syncLogUpsert(syncLog, a, groupId)
    /\ ops' = ops + 1
    /\ sched' = [sched EXCEPT ![i].pc = "calc"]
    /\ UNCHANGED <<partnerVars, admin, portalVars>>

\* the broker answers the trade-history call of pass i with an error, a
\* not-ok status or a broken connection
PassAccountFails(i) ==
    /\ i \in DOMAIN sched /\ sched[i].pc = "account"
    /\ sched' = [sched EXCEPT ![i] = passAdvance(@)]
    /\ UNCHANGED <<ledgerVars, ops, partnerVars, admin, syncLog, portalVars>>

PassCalc(i) ==
    /\ i \in DOMAIN sched /\ sched[i].pc = "calc"
    /\ \E db \in calculateIBCommissions(ledger, assignments, Head(sched[i].accounts),
                                         sched[i].ib) :
         /\ ledger' = db
         /\ syncLog' = syncLogAfter(syncLog, Head(sched[i].accounts), db)
    /\ sched' = [sched EXCEPT ![i] = passAdvance(@)]
    /\ UNCHANGED <<lastBatch, lastRaw, ops, partnerVars, admin, portalVars>>

\* the steps of pass i that wait for nothing but the program and its database
PassLocal(i) == PassCaught(i) \/ PassPartner(i) \/ PassCalc(i)

\* the steps of pass i that an answer of the broker sets off: fetch is called
\* without a signal or a timer, so nothing else ends the wait
PassBrokerAnswers(i) == PassUpsert(i) \/ PassAccountFails(i)

NextTimer ==
    \/ TimerFires \/ TimerFiresQueryFails
    \/ \E i \in 1..MaxPasses : PassCaught(i)
    \/ \E i \in 1..MaxPasses : PassPartner(i)
    \/ \E i \in 1..MaxPasses : PassUpsert(i)
    \/ \E i \in 1..MaxPasses : PassAccountFails(i)
    \/ \E i \in 1..MaxPasses : PassCalc(i)

SpecTimer == InitTimer /\ [][NextTimer]_vars

\* The timer keeps firing while the process runs, and the program's own
\* steps and database calls complete; nothing is assumed of the broker.
SpecTimerLive ==
    /\ SpecTimer
    /\ WF_vars(TimerFires \/ TimerFiresQueryFails)
    /\ \A i \in 1..MaxPasses : WF_vars(PassLocal(i))

\* C27: at most one pass is in progress at any time.
C27_NoOverlappingRuns ==
    Cardinality({ i \in 1..Len(sched) : running(sched[i]) }) <= 1

\* C24: when a pass has failed entirely (its first query threw), the timer
\* still fires again and starts the next pass.
C24_NextTickFires ==
    \A i \in 1..(MaxPasses - 1) :
        (Len(sched) >= i /\ sched[i].pc = "caught") ~> (Len(sched) > i)

\* the first pass failed before it processed a partner and has returned, and
\* a second pass has been started and has taken up a partner
C24_Witness ==
    /\ Len(sched) = 2
    /\ sched[1].pc = "done" /\ sched[1].ib = 0
    /\ sched[2].pc = "account"

\* C26: every pass the timer starts returns.
C26_PassTerminates ==
    \A i \in 1..MaxPasses :
        (Len(sched) >= i) ~> (Len(sched) >= i /\ sched[i].pc = "done")

----------------------------------------------------------------------------
(* IBTradeHistory.upsertTrades when the body of the loop throws for some    *)
(* items: the try/catch is inside the loop and every INSERT is a statement  *)
(* of its own (no transaction).                                             *)

\* a variant with the try/catch around the loop instead of inside it
afterItemError_leavesLoop(i, n) == n + 1

\* the index the loop goes on with after the body threw for item i: the
\* catch logs the error and the for-of takes the next item
afterItemError(i, n) == i + 1

\* The loop of upsertTrades over trades[i..] when the database rejects the
\* INSERT of the items whose indices are in `rejected`.
RECURSIVE upsertLoopRejecting(_, _, _, _, _, _, _, _, _)
upsertLoopRejecting(st, trades, i, accountId, userId, ibRequestId, usdPerLot, groupId, rejected) ==
    IF i > Len(trades) THEN st
    ELSE IF admitted(trades[i]) /\ i \in rejected
    THEN upsertLoopRejecting(st, trades, afterItemError(i, Len(trades)),
                             accountId, userId, ibRequestId, usdPerLot, groupId, rejected)
    ELSE LET new == excludedRow(trades[i], accountId, userId, ibRequestId, usdPerLot, groupId)
         IN upsertLoopRejecting(
                IF admitted(trades[i])
                THEN [db |-> insertOnConflict(st.db, new),
                      saved |-> Append(st.saved, returnedRow(st.db, new)),
                      ran |-> st.ran \cup {i}]
                ELSE st,
                trades, i + 1, accountId, userId, ibRequestId, usdPerLot, groupId, rejected)

admittedIndices(trades) == { i \in 1..Len(trades) : admitted(trades[i]) }

\* the responses above and two whose admissible items are different orders
ResponsesRejected == Responses \cup { <<I_p10, I_loss>>, <<I_loss, I_balance, I_p12>> }

\* a caller hands one upstream response to upsertTrades and the INSERT of
\* some of its admissible items throws
UpsertTradesItemThrows ==
    /\ ops < MaxOps
    /\ \E c \in IngestionCalls, trades \in ResponsesRejected :
        \E rejected \in SUBSET admittedIndices(trades) \ {{}} :
        LET usdPerLot == usdPerLotOf(c.commissionMap, c.groupId)
            out == upsertLoopRejecting([db |-> ledger, saved |-> <<>>, ran |-> {}],
                                       trades, 1, c.accountId, accountUser(c.accountId),
                                       c.ibRequestId, usdPerLot, c.groupId, rejected)
        IN /\ ledger' = out.db
           /\ lastBatch' = [engine |-> "current", accountId |-> c.accountId,
                            trades |-> trades, ran |-> out.ran, threw |-> rejected,
                            groupId |-> c.groupId, usdPerLot |-> usdPerLot]
           /\ lastRaw' = lastRawAfter(lastRaw, trades, out.ran, 1, ops + 1)
    /\ ops' = ops + 1
    /\ UNCHANGED <<partnerVars, syncVars, portalVars>>

NextBatch == UpsertTradesCall \/ UpsertTradesItemThrows

SpecBatch == Init /\ [][NextBatch]_vars

\* C25: when the body of the loop threw for some items of a batch, every
\* other admissible item of the batch was still executed and is stored with
\* the values of the batch, and nothing was written for the items that threw.
C25_ItemErrorSkipsItemOnly ==
    lastBatch.threw # {} =>
        /\ lastBatch.ran = admittedIndices(lastBatch.trades) \ lastBatch.threw
        /\ \A i \in lastBatch.ran :
              /\ lastRaw[lastBatch.trades[i].OrderId].synced_at = ops
              /\ \E r \in ledger :
                    /\ r.order_id = lastBatch.trades[i].OrderId
                    /\ r.close_price = lastBatch.trades[i].ClosePrice
        /\ \A i \in lastBatch.threw :
              (\A j \in lastBatch.ran :
                   lastBatch.trades[j].OrderId # lastBatch.trades[i].OrderId)
              => lastRaw[lastBatch.trades[i].OrderId].synced_at # ops

\* the first item of a batch threw and the second one was stored
C25_Witness ==
    /\ lastBatch.threw = {1}
    /\ lastBatch.ran = {2}
    /\ lastBatch.trades[1].OrderId # lastBatch.trades[2].OrderId
    /\ \E r \in ledger : r.order_id = lastBatch.trades[2].OrderId
    /\ ~ \E r \in ledger : r.order_id = lastBatch.trades[1].OrderId

----------------------------------------------------------------------------
(* PUT /referral-code: the validation, the SELECT that looks for another    *)
(* partner holding the code, and the UPDATE, as two database calls with an  *)
(* await between them and no transaction.                                   *)

UpperChar(c) ==
    IF \E i \in 1..Len(LowerChars) : LowerChars[i] = c
    THEN UpperChars[CHOOSE i \in 1..Len(LowerChars) : LowerChars[i] = c]
    ELSE c

\* String.prototype.toUpperCase
toUpperCase(s) == [i \in 1..Len(s) |-> UpperChar(s[i])]

Digits == {"0","1","2","3","4","5","6","7","8","9"}

\* /^[A-Z0-9]+$/.test(s)
upperAlnum(s) ==
    /\ s # <<>>
    /\ \A i \in 1..Len(s) : s[i] \in Range(UpperChars) \cup Digits

\* the referralCode values of request bodies: two spellings of AB, Z9, A1, a
\* missing one, a blank one, one with a dash and one of nine characters
ReferralBodies ==
    { <<"a","b">>, <<" ","A","B"," ">>, <<"Z","9">>, <<"A","1">>, NULL, <<" ">>,
      <<"a","-","b">>, <<"A","B","C","D","E","F","G","H","1">> }

\* the code the route stores for a body, NULL when it answers 400 before
\* it reads the table
validatedCode(referralCode) ==
    IF ~truthy(referralCode) THEN NULL
    ELSE LET trimmedCode == toUpperCase(trim(referralCode))
         IN IF Len(trimmedCode) > 8 \/ Len(trimmedCode) = 0 \/ ~upperAlnum(trimmedCode)
            THEN NULL ELSE trimmedCode

\* SELECT id FROM ib_requests WHERE referral_code = $1 AND id != $2
existing(codes, trimmedCode, ibId) ==
    { id \in Partners : id # ibId /\ codes[id] = trimmedCode }

\* the request of partner ibId up to the answer of the SELECT
ReferralCodeCheck ==
    /\ \E ibId \in Partners, referralCode \in ReferralBodies :
         /\ referralCodes.req[ibId].pc = "idle"
         /\ LET trimmedCode == validatedCode(referralCode)
            IN IF trimmedCode = NULL \/ existing(referralCodes.code, trimmedCode, ibId) # {}
               THEN /\ lastRequest' = [route |-> "/referral-code", ib |-> ibId, code |-> 400]
                    /\ UNCHANGED referralCodes
               ELSE /\ referralCodes' =
                         [referralCodes EXCEPT !.req[ibId] =
                             [pc |-> "checked", trimmedCode |-> trimmedCode]]
                    /\ UNCHANGED lastRequest
    /\ UNCHANGED <<ledgerVars, ops, ibRequests, assignments, syncVars, withdrawals,
                   tokens, lastAgg>>

\* the UPDATE of the request of partner ibId, and the response
ReferralCodeUpdate ==
    /\ \E ibId \in Partners :
         /\ referralCodes.req[ibId].pc = "checked"
         /\ referralCodes' =
               [referralCodes EXCEPT
                  !.code[ibId] = referralCodes.req[ibId].trimmedCode,
                  !.req[ibId] = [pc |-> "idle", trimmedCode |-> NULL]]
         /\ lastRequest' = [route |-> "/referral-code", ib |-> ibId, code |-> 200]
    /\ UNCHANGED <<ledgerVars, ops, ibRequests, assignments, syncVars, withdrawals,
                   tokens, lastAgg>>

NextReferral == ReferralCodeCheck \/ ReferralCodeUpdate

SpecReferral == Init /\ [][NextReferral]_vars

\* C30: no two partners hold the same referral code.
C30_ReferralCodesUnique ==
    \A i, j \in Partners :
        (i # j /\ referralCodes.code[i] # NULL) =>
            referralCodes.code[i] # referralCodes.code[j]

----------------------------------------------------------------------------
(* syncTradesForAccount of GET /profiles/:id/trades?sync=1: the rule map,   *)
(* the trade-history call, the profile call and upsertTrades; the function  *)
(* does not call calculateIBCommissions.                                    *)

SyncTradesForAccount ==
    /\ ops < MaxSyncs
    /\ \E ibId \in Partners :
       \E accountId \in Range(userAccounts(partnerUser(ibId))) :
       \E groupId \in ResolvedGroups(accountId) :
         LET ib == [id |-> ibId, usd_per_lot |-> ibRequests[ibId].usd_per_lot,
                    spread_percentage_per_lot |-> ibRequests[ibId].spread_percentage_per_lot]
             commissionMap == buildCommissionMap(assignments, ib)
             out == upsertTrades(ledger, upstreamTrades(accountId), accountId,
                                 partnerUser(ibId), ibId, commissionMap, groupId)
         IN /\ ledger' = out.db
            /\ lastBatch' = [engine |-> "current", accountId |-> accountId,
                             trades |-> upstreamTrades(accountId), ran |-> out.ran,
                             threw |-> {}, groupId |-> groupId,
                             usdPerLot |-> usdPerLotOf(commissionMap, groupId)]
            /\ lastRaw' = lastRawAfter(lastRaw, upstreamTrades(accountId), out.ran, 1, ops + 1)
            /\ syncLog' = syncLogUpsert(syncLog, accountId, groupId)
    /\ ops' = ops + 1
    /\ UNCHANGED <<partnerVars, sched, admin, portalVars>>

NextCycle ==
    \/ SyncTradesForAccount
    \/ TimerTick \/ SchedPartner \/ SchedUpsert \/ SchedCalc

SpecCycle == Init /\ [][NextCycle]_vars

\* C29: a sync of an account whose profile call failed (group unresolved)
\* changes the stored group_id of no trade, and when the sync before it of the
\* same account knew the group, it leaves no stored ib_commission of the
\* account lower than that sync left it (for syncTradesForAccount, whose
\* cycle is the single call).
C29_UnresolvedGroupKeepsStored ==
    [][ (ops' = ops + 1 /\ lastBatch'.groupId = NULL) =>
          /\ \A r \in ledger : \E r2 \in ledger' :
                r2.id = r.id /\ r2.group_id = r.group_id
          /\ (/\ sched' = sched /\ sched.pc # "calc"
              /\ lastBatch.groupId # NULL
              /\ lastBatch.accountId = lastBatch'.accountId) =>
                \A r \in ledger :
                    r.account_id = lastBatch'.accountId =>
                        \E r2 \in ledger' :
                            r2.id = r.id /\ r2.ib_commission >= r.ib_commission ]_vars

====
